---- MODULE Spec2Model ----
(***************************************************************************)
(* DrawNGuess server: the room / turn state machine of                     *)
(* server/handlers/gameHandler.ts and server/handlers/roomHandler.ts with  *)
(* its timer registries, its deferred callbacks and the per-recipient      *)
(* visibility filter of server/utils/sanitize.ts.                          *)
(*                                                                         *)
(* Every handler is a function from the server's state (a "world" record)  *)
(* to the server's state, so that a handler which calls advanceTurn,       *)
(* startNewTurn, ... is one atomic step, as it is on the single-threaded   *)
(* event loop.  Deferred callbacks (setTimeout) are separate steps.        *)
(***************************************************************************)
EXTENDS Integers, Sequences, FiniteSets, TLC

(***************************************************************************)
(* Bounds of the model.                                                    *)
(***************************************************************************)
\* connections (sockets) one client identity opens during a run
MaxConn == 2
\* off-nominal client events in a run: a connection closing, a connection opened by an
\* identity that still has one open, kick-player, end-game, toggle-ready, and a
\* submit-drawing or submit-guess sent on a turn of another kind, a start-game sent
\* while a game is being played, an un-submit sent in a skip round
MaxFaults == 1
\* off-nominal client events in a run of RoomSpec, where players never submit
MaxRoomFaults == 2
\* post-timer grace callbacks that may be pending at the same time
MaxGrace == 1
\* largest turn number and player count getCurrentAction is applied to in ProbeSpec
MaxTurn == 13
MaxCount == 13
\* room objects created during a run
MaxRooms == 1

\* client identities (localStorage userId) and the room codes in use
Users == {"u1", "u2", "u3"}
\* identities are interchangeable: they make their first connection in this order,
\* each one after the previous one has entered a room
UserOrder == <<"u1", "u2", "u3">>
Codes == {"AAAA"}

\* APP_CONFIG.gameLimits
minPlayers == 2
maxPlayers == 12

NoRoom == [gen |-> 0]
NoTimer == [gen |-> 0]
NoSocket == <<"none", 0>>
undefined == "undefined"

\* the payload of a message that carries no room
NoRoomView == [gen |-> 0, players |-> <<>>,
               gameState |-> [status |-> "NONE", turnNumber |-> 0, books |-> <<>>,
                              submittedPlayerIds |-> <<>>]]

VARIABLES
    rooms,          \* RoomManager.rooms: room code -> Room object or NoRoom
    turnTimers,     \* TurnTimerManager.timers: room code -> pending timer or NoTimer
    graceQ,         \* pending setTimeout(serverGracePeriod) callbacks, in arming order
    discQ,          \* pending 30 s disconnect callbacks of both handlers, in arming order
                    \* (equal delays: they run in the order they were armed)
    disconnectionTimers, \* the Map of disconnectionTimers.ts: player id -> handle
    conns,          \* client identity -> number of sockets it has opened so far
    open,           \* sockets currently connected
    joined,         \* socket.rooms: pairs <<socket, room code>>
    deadTurn,       \* turnNumber of room objects no longer in the registry, by gen
    nextGen,        \* number of room objects created
    faults,         \* off-nominal client events so far
    budget,         \* off-nominal client events the run allows
    probe,          \* ProbeSpec: the arguments a function is applied to and its result;
                    \* TimerSpec: the TurnTimerManager
    sent,           \* messages emitted by the last step
    advLog          \* the room before and after the auto-fill of each advanceTurn of the last step

vars == <<rooms, turnTimers, graceQ, discQ, disconnectionTimers, conns, open,
          joined, deadTurn, nextGen, faults, budget, probe, sent, advLog>>

(***************************************************************************)
(* The server's state as one record, and helpers on JavaScript arrays.     *)
(***************************************************************************)
World ==
    [rooms |-> rooms, turnTimers |-> turnTimers, graceQ |-> graceQ, discQ |-> discQ,
     disconnectionTimers |-> disconnectionTimers, joined |-> joined, open |-> open,
     deadTurn |-> deadTurn, sent |-> {}, advLog |-> <<>>]

\* Array.prototype.indexOf, 0-based, -1 when absent
indexOf(seq, x) ==
    IF \E i \in 1..Len(seq) : seq[i] = x
    THEN (CHOOSE i \in 1..Len(seq) : seq[i] = x /\ \A j \in 1..(i - 1) : seq[j] # x) - 1
    ELSE -1

includes(seq, x) == indexOf(seq, x) > -1

\* 1-based position of the first player with the given id / socket id, 0 when absent
findPlayerById(room, id) ==
    IF \E i \in 1..Len(room.players) : room.players[i].id = id
    THEN CHOOSE i \in 1..Len(room.players) :
            room.players[i].id = id /\ \A j \in 1..(i - 1) : room.players[j].id # id
    ELSE 0

findPlayerBySocket(room, s) ==
    IF \E i \in 1..Len(room.players) : room.players[i].socketId = s
    THEN CHOOSE i \in 1..Len(room.players) :
            room.players[i].socketId = s
            /\ \A j \in 1..(i - 1) : room.players[j].socketId # s
    ELSE 0

\* books.find(b => b.currentHolderId === playerId): 1-based, 0 when absent
findHeldBookIn(bs, id) ==
    IF \E i \in 1..Len(bs) : bs[i].currentHolderId = id
    THEN CHOOSE i \in 1..Len(bs) :
            bs[i].currentHolderId = id /\ \A j \in 1..(i - 1) : bs[j].currentHolderId # id
    ELSE 0

findHeldBook(room, id) == findHeldBookIn(room.gameState.books, id)

\* the JavaScript remainder, whose sign is the sign of the dividend
JsRem(a, b) == IF a >= 0 THEN a % b ELSE -((-a) % b)

getRoom(w, roomId) == IF roomId \in Codes THEN w.rooms[roomId] ELSE NoRoom

setRoom(w, roomId, room) == [w EXCEPT !.rooms[roomId] = room]

(***************************************************************************)
(* server/utils/sanitize.ts.  The players, teams and settings of a room    *)
(* are copied as they are; the model keeps the game state of the copy.     *)
(***************************************************************************)
sanitizeBook(book) ==
    [id |-> book.id, currentHolderId |-> book.currentHolderId, pages |-> book.pages]

sanitizeRoom(room) ==
    [status |-> room.gameState.status,
     turnNumber |-> room.gameState.turnNumber,
     books |-> [i \in 1..Len(room.gameState.books) |-> sanitizeBook(room.gameState.books[i])]]

\* the filter keeping the book the player owns instead of the book the player holds
sanitizeRoomForPlayer_owned(room, playerId) ==
    LET sanitized == sanitizeRoom(room)
        owned == {i \in 1..Len(sanitized.books) : sanitized.books[i].id = playerId}
    IN IF sanitized.status = "PLAYING"
       THEN [sanitized EXCEPT !.books = IF owned # {}
                                        THEN <<sanitized.books[CHOOSE i \in owned : TRUE]>>
                                        ELSE <<>>]
       ELSE sanitized

sanitizeRoomForPlayer(room, playerId) ==
    LET sanitized == sanitizeRoom(room)
        held == findHeldBookIn(sanitized.books, playerId)
    IN IF sanitized.status = "PLAYING"
       THEN [sanitized EXCEPT !.books = IF held # 0 THEN <<sanitized.books[held]>> ELSE <<>>]
       ELSE sanitized

\* what is recorded of an emitted payload
Payload(view) ==
    [status |-> view.status,
     holders |-> [i \in 1..Len(view.books) |-> view.books[i].currentHolderId]]

\* io.to(socketId).emit(ev, view): delivered when that socket is connected
emitTo(w, s, ev, view) ==
    IF s \in w.open
    THEN [w EXCEPT !.sent = @ \cup {[ev |-> ev, to |-> s, body |-> Payload(view)]}]
    ELSE w

\* io.to(roomId).emit(ev, view): delivered to every connected socket in the room
emitRoom(w, roomId, ev, view) ==
    [w EXCEPT !.sent = @ \cup {[ev |-> ev, to |-> s, body |-> Payload(view)] :
                               s \in {t \in w.open : <<t, roomId>> \in w.joined}}]

broadcastPersonal(w, room, ev) ==
    [w EXCEPT !.sent = @ \cup
        {[ev |-> ev, to |-> room.players[i].socketId,
          body |-> Payload(sanitizeRoomForPlayer(room, room.players[i].id))] :
         i \in {j \in 1..Len(room.players) :
                    room.players[j].isConnected /\ room.players[j].socketId \in w.open}}]

broadcastRoomUpdate(w, room) == broadcastPersonal(w, room, "room_update")

(***************************************************************************)
(* server/state/TurnTimerManager.ts                                        *)
(***************************************************************************)
\* clearTimer that leaves the pending timer alone
clearTimer_idle(w, roomId) == w

clearTimer(w, roomId) ==
    IF w.turnTimers[roomId] # NoTimer
    THEN [w EXCEPT !.turnTimers[roomId] = NoTimer]
    ELSE w

\* the callback closes over the room object (gen); turn records the turn it was armed in
startTimer(w, roomId, room) ==
    LET w1 == clearTimer(w, roomId)
    IN [w1 EXCEPT !.turnTimers[roomId] =
            [gen |-> room.gen, turn |-> room.gameState.turnNumber]]

(***************************************************************************)
(* server/handlers/gameHandler.ts: the turn machine                        *)
(***************************************************************************)
\* getCurrentAction without the shift of the turn number for odd player counts
getCurrentAction_unshifted(turnNumber, playerCount) ==
    IF JsRem(playerCount, 2) # 0 /\ turnNumber = 0 THEN "skip"
    ELSE IF JsRem(turnNumber, 2) = 0 THEN "draw" ELSE "guess"

getCurrentAction(turnNumber, playerCount) ==
    LET isOdd == JsRem(playerCount, 2) # 0
        effectiveTurn == IF isOdd THEN turnNumber - 1 ELSE turnNumber
    IN IF isOdd /\ turnNumber = 0 THEN "skip"
       ELSE IF JsRem(effectiveTurn, 2) = 0 THEN "draw" ELSE "guess"

\* a rotation that leaves every book with its holder
nextHolder_same(playerIds, holder) == holder

\* the holder a book gets in a rotation over the ids of the current player list
nextHolder(playerIds, holder) ==
    LET currentIndex == indexOf(playerIds, holder)
    IN IF Len(playerIds) = 0 THEN undefined
       ELSE playerIds[JsRem(currentIndex + 1, Len(playerIds)) + 1]

rotateBooks(w, roomId) ==
    LET room == getRoom(w, roomId)
        playerIds == [i \in 1..Len(room.players) |-> room.players[i].id]
    IN IF room = NoRoom THEN w
       ELSE setRoom(w, roomId,
                [room EXCEPT !.gameState.books =
                    [i \in 1..Len(@) |->
                        [@[i] EXCEPT !.currentHolderId = nextHolder(playerIds, @)]]])

endGame(w, roomId) ==
    LET room == getRoom(w, roomId)
        room1 == [room EXCEPT !.gameState.status = "REVEAL"]
    IN IF room = NoRoom THEN w
       ELSE emitRoom(setRoom(w, roomId, room1), roomId, "game_over", sanitizeRoom(room1))

startNewTurn(w, roomId) ==
    LET room == getRoom(w, roomId)
        w1 == setRoom(w, roomId, [room EXCEPT !.gameState.submittedPlayerIds = <<>>])
        w2 == IF room.gameState.turnNumber > 0 THEN rotateBooks(w1, roomId) ELSE w1
        room2 == getRoom(w2, roomId)
        w3 == broadcastPersonal(w2, room2, "turn_advance")
    IN IF room = NoRoom THEN w
       ELSE startTimer(w3, roomId, room2)

\* autoFillForPlayer without the disconnected mark on the page
autoFillForPlayer_unmarked(w, roomId, playerId, disconnected) ==
    LET room == getRoom(w, roomId)
        pi == findPlayerById(room, playerId)
        bi == findHeldBook(room, playerId)
        action == getCurrentAction(room.gameState.turnNumber, Len(room.players))
        submitted == room.gameState.submittedPlayerIds
        marked == IF includes(submitted, playerId) THEN submitted
                  ELSE Append(submitted, playerId)
        autoFilledPage ==
            [type |-> IF action = "draw" THEN "draw" ELSE "guess",
             playerId |-> room.players[pi].id,
             content |-> <<>>,
             disconnected |-> "false",
             turn |-> room.gameState.turnNumber]
    IN IF room = NoRoom \/ pi = 0 \/ bi = 0 THEN w
       ELSE IF action = "skip"
            THEN setRoom(w, roomId, [room EXCEPT !.gameState.submittedPlayerIds = marked])
       ELSE setRoom(w, roomId,
                [room EXCEPT !.gameState.books[bi].pages = Append(@, autoFilledPage),
                             !.gameState.submittedPlayerIds = marked])

autoFillForPlayer(w, roomId, playerId, disconnected) ==
    LET room == getRoom(w, roomId)
        pi == findPlayerById(room, playerId)
        bi == findHeldBook(room, playerId)
        action == getCurrentAction(room.gameState.turnNumber, Len(room.players))
        submitted == room.gameState.submittedPlayerIds
        marked == IF includes(submitted, playerId) THEN submitted
                  ELSE Append(submitted, playerId)
        autoFilledPage ==
            [type |-> IF action = "draw" THEN "draw" ELSE "guess",
             playerId |-> room.players[pi].id,
             content |-> <<>>,
             disconnected |-> IF disconnected THEN "true" ELSE "false",
             turn |-> room.gameState.turnNumber]
    IN IF room = NoRoom THEN w
       ELSE IF pi = 0 THEN w
       ELSE IF bi = 0 THEN w
       ELSE IF action = "skip"
            THEN setRoom(w, roomId, [room EXCEPT !.gameState.submittedPlayerIds = marked])
       ELSE setRoom(w, roomId,
                [room EXCEPT !.gameState.books[bi].pages = Append(@, autoFilledPage),
                             !.gameState.submittedPlayerIds = marked])

\* the auto-fill loop of advanceTurn without the test of the submitted set
RECURSIVE autoFillMissing_all(_, _, _, _)
autoFillMissing_all(w, roomId, submittedIds, i) ==
    LET players == getRoom(w, roomId).players
    IN IF i > Len(players) THEN w
       ELSE autoFillMissing_all(
                autoFillForPlayer(w, roomId, players[i].id, ~players[i].isConnected),
                roomId, submittedIds, i + 1)

\* the forEach of advanceTurn over room.players, from player i on; submittedIds is
\* the Set built before the loop
RECURSIVE autoFillMissing(_, _, _, _)
autoFillMissing(w, roomId, submittedIds, i) ==
    LET players == getRoom(w, roomId).players
    IN IF i > Len(players) THEN w
       ELSE autoFillMissing(
                IF players[i].id \notin submittedIds
                THEN autoFillForPlayer(w, roomId, players[i].id, ~players[i].isConnected)
                ELSE w,
                roomId, submittedIds, i + 1)

advanceTurn(w, roomId) ==
    LET w1 == clearTimer(w, roomId)
        room == getRoom(w1, roomId)
        submittedIds == {room.gameState.submittedPlayerIds[i] :
                            i \in 1..Len(room.gameState.submittedPlayerIds)}
        w2 == autoFillMissing(w1, roomId, submittedIds, 1)
        room2 == getRoom(w2, roomId)
        room3 == [room2 EXCEPT !.gameState.turnNumber = @ + 1]
        w3 == setRoom([w2 EXCEPT !.advLog = Append(@, [before |-> room, after |-> room2])],
                      roomId, room3)
    IN IF room = NoRoom THEN w1
       ELSE IF room3.gameState.turnNumber >= Len(room3.players)
            THEN endGame(w3, roomId)
            ELSE startNewTurn(w3, roomId)

(***************************************************************************)
(* Client payloads and their validation (shared/schemas.ts).  A string is  *)
(* a sequence of characters; "data:image/" stands for that prefix.         *)
(***************************************************************************)
DrawingInputs == {<<"data:image/", "A">>, <<"A">>}
GuessInputs == {<<" ", "c", " ">>, <<>>}

RECURSIVE trimStart(_)
trimStart(str) ==
    IF Len(str) > 0 /\ Head(str) = " " THEN trimStart(Tail(str)) ELSE str

RECURSIVE trimEnd(_)
trimEnd(str) ==
    IF Len(str) > 0 /\ str[Len(str)] = " " THEN trimEnd(SubSeq(str, 1, Len(str) - 1)) ELSE str

\* String.prototype.trim
trim(str) == trimEnd(trimStart(str))

\* SubmitDrawingSchema: at most 1000000 characters, starting with data:image/
SubmitDrawingSchema(drawingData) ==
    Len(drawingData) > 0 /\ Head(drawingData) = "data:image/"

\* SubmitGuessSchema: min(1) and max(100) test the text as sent, then it is trimmed
SubmitGuessSchema(guessText) == Len(guessText) >= 1

userIdOf(s) == s[1]

(***************************************************************************)
(* server/handlers/gameHandler.ts: the socket handlers                     *)
(***************************************************************************)
\* the settings a client can send: lists of difficulties, the empty one invalid
SettingsInputs ==
    {[difficulties |-> d] : d \in {<<>>, <<"easy">>, <<"hard">>, <<"easy", "medium", "hard">>}}

\* UpdateSettingsSchema: difficulties is an array of at least one difficulty
UpdateSettingsSchema(settings) == Len(settings.difficulties) >= 1

UPDATE_SETTINGS(w, s, roomId, settings) ==
    LET room == getRoom(w, roomId)
        room1 == [room EXCEPT !.settings.difficulties = settings.difficulties]
    IN IF ~UpdateSettingsSchema(settings) THEN w
       ELSE IF room = NoRoom THEN w
       ELSE broadcastRoomUpdate(setRoom(w, roomId, room1), room1)

TOGGLE_READY(w, s, roomId) ==
    LET room == getRoom(w, roomId)
        pi == findPlayerBySocket(room, s)
        room1 == [room EXCEPT !.players[pi].isReady = ~@]
    IN IF room = NoRoom THEN w
       ELSE IF pi = 0 THEN w
       ELSE broadcastRoomUpdate(setRoom(w, roomId, room1), room1)

\* a book created without its seed page
newBook_blank(p) ==
    [id |-> p.id, pages |-> <<>>, currentHolderId |-> p.id]

\* the seed page and the book START_GAME builds for a player
newBook(p) ==
    [id |-> p.id,
     pages |-> <<[type |-> "word", playerId |-> p.id, content |-> <<"w">>,
                  disconnected |-> undefined, turn |-> -1]>>,
     currentHolderId |-> p.id]

\* START_GAME without the test of the number of players
START_GAME_alone(w, s, roomId) ==
    LET room == getRoom(w, roomId)
        pi == findPlayerBySocket(room, s)
        room1 == [room EXCEPT
                    !.gameState.status = "PLAYING",
                    !.gameState.turnNumber = 0,
                    !.gameState.submittedPlayerIds = <<>>,
                    !.gameState.books = [i \in 1..Len(room.players) |-> newBook(room.players[i])]]
        w1 == broadcastPersonal(setRoom(w, roomId, room1), room1, "game_started")
    IN IF room = NoRoom THEN w
       ELSE IF pi = 0 \/ ~room.players[pi].isHost THEN w
       ELSE startNewTurn(w1, roomId)

START_GAME(w, s, roomId) ==
    LET room == getRoom(w, roomId)
        pi == findPlayerBySocket(room, s)
        room1 == [room EXCEPT
                    !.gameState.status = "PLAYING",
                    !.gameState.turnNumber = 0,
                    !.gameState.submittedPlayerIds = <<>>,
                    !.gameState.books = [i \in 1..Len(room.players) |-> newBook(room.players[i])]]
        w1 == broadcastPersonal(setRoom(w, roomId, room1), room1, "game_started")
    IN IF room = NoRoom THEN w
       ELSE IF pi = 0 \/ ~room.players[pi].isHost THEN w
       ELSE IF Len(room.players) < minPlayers THEN w
       ELSE startNewTurn(w1, roomId)

\* submitPage without the test of the submitted list
submitPage_again(w, s, roomId, type, content) ==
    LET room == getRoom(w, roomId)
        pi == findPlayerBySocket(room, s)
        player == room.players[pi]
        bi == findHeldBook(room, player.id)
        page == [type |-> type, playerId |-> player.id, content |-> content,
                 disconnected |-> undefined, turn |-> room.gameState.turnNumber]
        room1 == [room EXCEPT !.gameState.books[bi].pages = Append(@, page),
                              !.gameState.submittedPlayerIds = Append(@, player.id)]
        w1 == broadcastRoomUpdate(setRoom(w, roomId, room1), room1)
    IN IF room = NoRoom \/ room.gameState.status # "PLAYING" THEN w
       ELSE IF pi = 0 THEN w
       ELSE IF bi = 0 THEN w
       ELSE IF Len(room1.gameState.submittedPlayerIds) = Len(room1.players)
            THEN advanceTurn(w1, roomId)
            ELSE w1

\* submitPage that writes in the book the player owns instead of the one they hold
submitPage_own(w, s, roomId, type, content) ==
    LET room == getRoom(w, roomId)
        pi == findPlayerBySocket(room, s)
        player == room.players[pi]
        owned == {i \in 1..Len(room.gameState.books) : room.gameState.books[i].id = player.id}
        bi == IF owned = {} THEN 0 ELSE CHOOSE i \in owned : \A j \in owned : i <= j
        page == [type |-> type, playerId |-> player.id, content |-> content,
                 disconnected |-> undefined, turn |-> room.gameState.turnNumber]
        room1 == [room EXCEPT !.gameState.books[bi].pages = Append(@, page),
                              !.gameState.submittedPlayerIds = Append(@, player.id)]
        w1 == broadcastRoomUpdate(setRoom(w, roomId, room1), room1)
    IN IF room = NoRoom \/ room.gameState.status # "PLAYING" THEN w
       ELSE IF pi = 0 THEN w
       ELSE IF includes(room.gameState.submittedPlayerIds, player.id) THEN w
       ELSE IF bi = 0 THEN w
       ELSE IF Len(room1.gameState.submittedPlayerIds) = Len(room1.players)
            THEN advanceTurn(w1, roomId)
            ELSE w1

\* what SUBMIT_DRAWING and SUBMIT_GUESS do once the payload is parsed
submitPage(w, s, roomId, type, content) ==
    LET room == getRoom(w, roomId)
        pi == findPlayerBySocket(room, s)
        player == room.players[pi]
        bi == findHeldBook(room, player.id)
        page == [type |-> type, playerId |-> player.id, content |-> content,
                 disconnected |-> undefined, turn |-> room.gameState.turnNumber]
        room1 == [room EXCEPT !.gameState.books[bi].pages = Append(@, page),
                              !.gameState.submittedPlayerIds = Append(@, player.id)]
        w1 == broadcastRoomUpdate(setRoom(w, roomId, room1), room1)
    IN IF room = NoRoom \/ room.gameState.status # "PLAYING" THEN w
       ELSE IF pi = 0 THEN w
       ELSE IF includes(room.gameState.submittedPlayerIds, player.id) THEN w
       ELSE IF bi = 0 THEN w
       ELSE IF Len(room1.gameState.submittedPlayerIds) = Len(room1.players)
            THEN advanceTurn(w1, roomId)
            ELSE w1

SUBMIT_DRAWING(w, s, roomId, drawingData) ==
    IF ~SubmitDrawingSchema(drawingData) THEN w
    ELSE submitPage(w, s, roomId, "draw", drawingData)

SUBMIT_GUESS(w, s, roomId, guessText) ==
    IF ~SubmitGuessSchema(guessText) THEN w
    ELSE submitPage(w, s, roomId, "guess", trim(trim(guessText)))

\* splice(index, 1) of a 0-based index
splice1(seq, index) ==
    [i \in 1..(Len(seq) - 1) |-> IF i <= index THEN seq[i] ELSE seq[i + 1]]

\* UNSUBMIT that takes the player out of the submitted list and leaves the page
UNSUBMIT_keepsPage(w, s, roomId) ==
    LET room == getRoom(w, roomId)
        pi == findPlayerBySocket(room, s)
        index == indexOf(room.gameState.submittedPlayerIds, room.players[pi].id)
        room1 == [room EXCEPT !.gameState.submittedPlayerIds = splice1(@, index)]
    IN IF room = NoRoom \/ room.gameState.status # "PLAYING" THEN w
       ELSE IF pi = 0 THEN w
       ELSE IF index > -1 THEN broadcastRoomUpdate(setRoom(w, roomId, room1), room1)
       ELSE w

\* UNSUBMIT that pops the page whether or not the player is in the submitted list
UNSUBMIT_unasked(w, s, roomId) ==
    LET room == getRoom(w, roomId)
        pi == findPlayerBySocket(room, s)
        player == room.players[pi]
        index == indexOf(room.gameState.submittedPlayerIds, player.id)
        room1 == IF index > -1
                 THEN [room EXCEPT !.gameState.submittedPlayerIds = splice1(@, index)]
                 ELSE room
        bi == findHeldBook(room1, player.id)
        pages == room1.gameState.books[bi].pages
        room2 == IF bi # 0 /\ Len(pages) > 0 /\ pages[Len(pages)].playerId = player.id
                 THEN [room1 EXCEPT !.gameState.books[bi].pages = SubSeq(@, 1, Len(@) - 1)]
                 ELSE room1
    IN IF room = NoRoom \/ room.gameState.status # "PLAYING" THEN w
       ELSE IF pi = 0 THEN w
       ELSE broadcastRoomUpdate(setRoom(w, roomId, room2), room2)

UNSUBMIT(w, s, roomId) ==
    LET room == getRoom(w, roomId)
        pi == findPlayerBySocket(room, s)
        player == room.players[pi]
        index == indexOf(room.gameState.submittedPlayerIds, player.id)
        room1 == [room EXCEPT !.gameState.submittedPlayerIds = splice1(@, index)]
        bi == findHeldBook(room1, player.id)
        pages == room1.gameState.books[bi].pages
        room2 == IF bi # 0 /\ Len(pages) > 0 /\ pages[Len(pages)].playerId = player.id
                 THEN [room1 EXCEPT !.gameState.books[bi].pages = SubSeq(@, 1, Len(@) - 1)]
                 ELSE room1
    IN IF room = NoRoom \/ room.gameState.status # "PLAYING" THEN w
       ELSE IF pi = 0 THEN w
       ELSE IF index > -1 THEN broadcastRoomUpdate(setRoom(w, roomId, room2), room2)
       ELSE w

SUBMIT_SKIP_READY(w, s, roomId) ==
    LET room == getRoom(w, roomId)
        pi == findPlayerBySocket(room, s)
        player == room.players[pi]
        action == getCurrentAction(room.gameState.turnNumber, Len(room.players))
        room1 == [room EXCEPT !.gameState.submittedPlayerIds = Append(@, player.id)]
        w1 == broadcastRoomUpdate(setRoom(w, roomId, room1), room1)
    IN IF room = NoRoom \/ room.gameState.status # "PLAYING" THEN w
       ELSE IF pi = 0 THEN w
       ELSE IF action # "skip" THEN w
       ELSE IF includes(room.gameState.submittedPlayerIds, player.id) THEN w
       ELSE IF Len(room1.gameState.submittedPlayerIds) = Len(room1.players)
            THEN advanceTurn(w1, roomId)
            ELSE w1

END_GAME(w, s, roomId) ==
    LET room == getRoom(w, roomId)
        pi == findPlayerBySocket(room, s)
        room1 == [room EXCEPT !.gameState.status = "LOBBY",
                              !.gameState.turnNumber = 0,
                              !.gameState.books = <<>>,
                              !.gameState.submittedPlayerIds = <<>>]
    IN IF room = NoRoom THEN w
       ELSE IF pi # 0 /\ room.players[pi].isHost
            THEN emitRoom(setRoom(w, roomId, room1), roomId, "room_update", sanitizeRoom(room1))
            ELSE w

(***************************************************************************)
(* server/handlers/roomHandler.ts                                          *)
(***************************************************************************)
\* the order in which socket.rooms and RoomManager.getAllRooms are walked
CodeOrder == <<"AAAA">>

CREATE_ROOM(w, s, roomId, gen) ==
    LET player == [id |-> userIdOf(s), socketId |-> s, isReady |-> TRUE,
                   isConnected |-> TRUE, isHost |-> TRUE]
        room == [gen |-> gen,
                 players |-> <<player>>,
                 settings |-> [difficulties |-> <<"easy", "medium", "hard">>],
                 gameState |-> [status |-> "LOBBY", turnNumber |-> 0, books |-> <<>>,
                                submittedPlayerIds |-> <<>>]]
    IN [setRoom(w, roomId, room) EXCEPT !.joined = @ \cup {<<s, roomId>>}]

\* clearTimeout of a handle kept in disconnectionTimers
clearDisconnectionTimer(w, handle) ==
    [w EXCEPT !.discQ = SelectSeq(@, LAMBDA e : ~(e.kind = "autofill" /\ e.sock = handle))]

\* JOIN_ROOM without the test of the room's status
JOIN_ROOM_anyStatus(w, s, roomId) ==
    LET room == getRoom(w, roomId)
        userId == userIdOf(s)
        ei == findPlayerById(room, userId)
        room1 == [room EXCEPT !.players[ei].socketId = s,
                              !.players[ei].isConnected = TRUE]
        w2 == [setRoom(w, roomId, room1) EXCEPT !.joined = @ \cup {<<s, roomId>>}]
        player == [id |-> userId, socketId |-> s, isReady |-> FALSE,
                   isConnected |-> TRUE, isHost |-> FALSE]
        room3 == [room EXCEPT !.players = Append(@, player)]
        w3 == [setRoom(w, roomId, room3) EXCEPT !.joined = @ \cup {<<s, roomId>>}]
    IN IF room = NoRoom THEN w
       ELSE IF Len(room.players) >= maxPlayers THEN w
       ELSE IF ei # 0 THEN emitRoom(w2, roomId, "room_update", sanitizeRoom(room1))
       ELSE emitRoom(w3, roomId, "room_update", sanitizeRoom(room3))

\* JOIN_ROOM without the search for an existing player of the same identity
JOIN_ROOM_anew(w, s, roomId) ==
    LET room == getRoom(w, roomId)
        player == [id |-> userIdOf(s), socketId |-> s, isReady |-> FALSE,
                   isConnected |-> TRUE, isHost |-> FALSE]
        room3 == [room EXCEPT !.players = Append(@, player)]
        w3 == [setRoom(w, roomId, room3) EXCEPT !.joined = @ \cup {<<s, roomId>>}]
    IN IF room = NoRoom THEN w
       ELSE IF room.gameState.status # "LOBBY" THEN w
       ELSE IF Len(room.players) >= maxPlayers THEN w
       ELSE emitRoom(w3, roomId, "room_update", sanitizeRoom(room3))

\* JOIN_ROOM whose reconnection branch makes the player not ready again
JOIN_ROOM_unready(w, s, roomId) ==
    LET room == getRoom(w, roomId)
        userId == userIdOf(s)
        ei == findPlayerById(room, userId)
        room1 == [room EXCEPT !.players[ei].socketId = s,
                              !.players[ei].isConnected = TRUE,
                              !.players[ei].isReady = FALSE]
        w1 == IF w.disconnectionTimers[userId] # NoSocket
              THEN [clearDisconnectionTimer(w, w.disconnectionTimers[userId])
                        EXCEPT !.disconnectionTimers[userId] = NoSocket]
              ELSE w
        w2 == [setRoom(w1, roomId, room1) EXCEPT !.joined = @ \cup {<<s, roomId>>}]
        player == [id |-> userId, socketId |-> s, isReady |-> FALSE,
                   isConnected |-> TRUE, isHost |-> FALSE]
        room3 == [room EXCEPT !.players = Append(@, player)]
        w3 == [setRoom(w, roomId, room3) EXCEPT !.joined = @ \cup {<<s, roomId>>}]
    IN IF room = NoRoom THEN w
       ELSE IF room.gameState.status # "LOBBY" THEN w
       ELSE IF Len(room.players) >= maxPlayers THEN w
       ELSE IF ei # 0 THEN emitRoom(w2, roomId, "room_update", sanitizeRoom(room1))
       ELSE emitRoom(w3, roomId, "room_update", sanitizeRoom(room3))

JOIN_ROOM(w, s, roomId) ==
    LET room == getRoom(w, roomId)
        userId == userIdOf(s)
        ei == findPlayerById(room, userId)
        room1 == [room EXCEPT !.players[ei].socketId = s,
                              !.players[ei].isConnected = TRUE]
        w1 == IF w.disconnectionTimers[userId] # NoSocket
              THEN [clearDisconnectionTimer(w, w.disconnectionTimers[userId])
                        EXCEPT !.disconnectionTimers[userId] = NoSocket]
              ELSE w
        w2 == [setRoom(w1, roomId, room1) EXCEPT !.joined = @ \cup {<<s, roomId>>}]
        player == [id |-> userId, socketId |-> s, isReady |-> FALSE,
                   isConnected |-> TRUE, isHost |-> FALSE]
        room3 == [room EXCEPT !.players = Append(@, player)]
        w3 == [setRoom(w, roomId, room3) EXCEPT !.joined = @ \cup {<<s, roomId>>}]
    IN IF room = NoRoom THEN w
       ELSE IF room.gameState.status # "LOBBY" THEN w
       ELSE IF Len(room.players) >= maxPlayers THEN w
       ELSE IF ei # 0 THEN emitRoom(w2, roomId, "room_update", sanitizeRoom(room1))
       ELSE emitRoom(w3, roomId, "room_update", sanitizeRoom(room3))

\* what JOIN_ROOM passes to the client's callback: an error text, or "room" for the
\* sanitized room
JOIN_ROOM_reply(w, s, roomId) ==
    LET room == getRoom(w, roomId)
    IN IF room = NoRoom THEN "Room not found"
       ELSE IF room.gameState.status # "LOBBY" THEN "Game already in progress"
       ELSE IF Len(room.players) >= maxPlayers THEN "Room is full"
       ELSE "room"

\* the body of the DISCONNECTING handler for one room of socket.rooms
\* a disconnecting handler that looks the leaving player up by the identity of the
\* socket instead of by its socket id
disconnectingRoom_byId(w, s, roomId) ==
    LET room == getRoom(w, roomId)
        pi == findPlayerById(room, userIdOf(s))
        room1 == [room EXCEPT !.players[pi].isConnected = FALSE]
        w1 == emitRoom(setRoom(w, roomId, room1), roomId, "room_update", sanitizeRoom(room1))
    IN IF room = NoRoom THEN w
       ELSE IF pi = 0 THEN w
       ELSE [w1 EXCEPT !.discQ = Append(@, [kind |-> "remove", roomId |-> roomId,
                                             playerId |-> room.players[pi].id, sock |-> s,
                                             turn |-> room.gameState.turnNumber])]

disconnectingRoom(w, s, roomId) ==
    LET room == getRoom(w, roomId)
        pi == findPlayerBySocket(room, s)
        room1 == [room EXCEPT !.players[pi].isConnected = FALSE]
        w1 == emitRoom(setRoom(w, roomId, room1), roomId, "room_update", sanitizeRoom(room1))
    IN IF room = NoRoom THEN w
       ELSE IF pi = 0 THEN w
       ELSE [w1 EXCEPT !.discQ = Append(@, [kind |-> "remove", roomId |-> roomId,
                                             playerId |-> room.players[pi].id, sock |-> s,
                                             turn |-> room.gameState.turnNumber])]

RECURSIVE disconnectingFrom(_, _, _)
disconnectingFrom(w, s, i) ==
    IF i > Len(CodeOrder) THEN w
    ELSE disconnectingFrom(
            IF <<s, CodeOrder[i]>> \in w.joined THEN disconnectingRoom(w, s, CodeOrder[i]) ELSE w,
            s, i + 1)

DISCONNECTING(w, s) == disconnectingFrom(w, s, 1)

\* the removal callback without the host migration
removeAfterGrace_hostless(w, e) ==
    LET currentRoom == getRoom(w, e.roomId)
        pi == findPlayerById(currentRoom, e.playerId)
        p == currentRoom.players[pi]
        room1 == [currentRoom EXCEPT !.players = SelectSeq(@, LAMBDA pl : pl.id # p.id)]
        w1 == emitRoom(setRoom(w, e.roomId, room1), e.roomId, "room_update", sanitizeRoom(room1))
    IN IF currentRoom = NoRoom THEN w
       ELSE IF pi = 0 \/ p.isConnected THEN w
       ELSE IF Len(room1.players) = 0
            THEN [w1 EXCEPT !.rooms[e.roomId] = NoRoom,
                            !.deadTurn = [g \in DOMAIN @ \cup {room1.gen} |->
                                            IF g = room1.gen THEN room1.gameState.turnNumber
                                            ELSE @[g]]]
       ELSE w1

\* the removal callback without the test that the player is still disconnected
removeAfterGrace_regardless(w, e) ==
    LET currentRoom == getRoom(w, e.roomId)
        pi == findPlayerById(currentRoom, e.playerId)
        p == currentRoom.players[pi]
        room1 == [currentRoom EXCEPT !.players = SelectSeq(@, LAMBDA pl : pl.id # p.id)]
        w1 == emitRoom(setRoom(w, e.roomId, room1), e.roomId, "room_update", sanitizeRoom(room1))
    IN IF currentRoom = NoRoom THEN w
       ELSE IF pi = 0 THEN w
       ELSE IF Len(room1.players) = 0
            THEN [w1 EXCEPT !.rooms[e.roomId] = NoRoom,
                            !.deadTurn = [g \in DOMAIN @ \cup {room1.gen} |->
                                            IF g = room1.gen THEN room1.gameState.turnNumber
                                            ELSE @[g]]]
       ELSE w1

\* the removal callback without the clean-up of an empty room
removeAfterGrace_keepsRoom(w, e) ==
    LET currentRoom == getRoom(w, e.roomId)
        pi == findPlayerById(currentRoom, e.playerId)
        p == currentRoom.players[pi]
        room1 == [currentRoom EXCEPT !.players = SelectSeq(@, LAMBDA pl : pl.id # p.id)]
        w1 == emitRoom(setRoom(w, e.roomId, room1), e.roomId, "room_update", sanitizeRoom(room1))
        room2 == [room1 EXCEPT !.players[1].isHost = TRUE]
        w2 == emitRoom(setRoom(w1, e.roomId, room2), e.roomId, "toast", sanitizeRoom(NoRoomView))
    IN IF currentRoom = NoRoom THEN w
       ELSE IF pi = 0 \/ p.isConnected THEN w
       ELSE IF Len(room1.players) = 0 THEN w1
       ELSE IF p.isHost
            THEN emitRoom(w2, e.roomId, "room_update", sanitizeRoom(room2))
       ELSE w1

\* the callback the DISCONNECTING handler arms
removeAfterGrace(w, e) ==
    LET currentRoom == getRoom(w, e.roomId)
        pi == findPlayerById(currentRoom, e.playerId)
        p == currentRoom.players[pi]
        room1 == [currentRoom EXCEPT !.players = SelectSeq(@, LAMBDA pl : pl.id # p.id)]
        w1 == emitRoom(setRoom(w, e.roomId, room1), e.roomId, "room_update", sanitizeRoom(room1))
        room2 == [room1 EXCEPT !.players[1].isHost = TRUE]
        w2 == emitRoom(setRoom(w1, e.roomId, room2), e.roomId, "toast", sanitizeRoom(NoRoomView))
    IN IF currentRoom = NoRoom THEN w
       ELSE IF pi = 0 \/ p.isConnected THEN w
       ELSE IF Len(room1.players) = 0
            THEN [w1 EXCEPT !.rooms[e.roomId] = NoRoom,
                            !.deadTurn = [g \in DOMAIN @ \cup {room1.gen} |->
                                            IF g = room1.gen THEN room1.gameState.turnNumber
                                            ELSE @[g]]]
       ELSE IF p.isHost
            THEN emitRoom(w2, e.roomId, "room_update", sanitizeRoom(room2))
       ELSE w1

\* KICK_PLAYER without the test that the requester is the host
KICK_PLAYER_anyone(w, s, roomId, playerId) ==
    LET room == getRoom(w, roomId)
        ri == findPlayerBySocket(room, s)
        ti == findPlayerById(room, playerId)
        room1 == [room EXCEPT !.players = SelectSeq(@, LAMBDA p : p.id # playerId)]
        w1 == emitRoom(setRoom(w, roomId, room1), roomId, "room_update", sanitizeRoom(room1))
    IN IF room = NoRoom THEN w
       ELSE IF ri = 0 THEN w
       ELSE IF ti = 0 \/ room.players[ti].id = room.players[ri].id THEN w
       ELSE emitTo(w1, room.players[ti].socketId, "kicked", sanitizeRoom(NoRoomView))

KICK_PLAYER(w, s, roomId, playerId) ==
    LET room == getRoom(w, roomId)
        ri == findPlayerBySocket(room, s)
        ti == findPlayerById(room, playerId)
        room1 == [room EXCEPT !.players = SelectSeq(@, LAMBDA p : p.id # playerId)]
        w1 == emitRoom(setRoom(w, roomId, room1), roomId, "room_update", sanitizeRoom(room1))
    IN IF room = NoRoom THEN w
       ELSE IF ri = 0 \/ ~room.players[ri].isHost THEN w
       ELSE IF ti = 0 \/ room.players[ti].id = room.players[ri].id THEN w
       ELSE emitTo(w1, room.players[ti].socketId, "kicked", sanitizeRoom(NoRoomView))

(***************************************************************************)
(* server/handlers/gameHandler.ts: DISCONNECT and its grace callback       *)
(***************************************************************************)
\* allRooms.find(r => r.players.some(p => p.socketId === socket.id)), "" when none
roomOfSocket(w, s) ==
    LET hits == {i \in 1..Len(CodeOrder) :
                    /\ w.rooms[CodeOrder[i]] # NoRoom
                    /\ findPlayerBySocket(w.rooms[CodeOrder[i]], s) # 0}
    IN IF hits = {} THEN ""
       ELSE CodeOrder[CHOOSE i \in hits : \A j \in hits : i <= j]

DISCONNECT(w, s) ==
    LET roomId == roomOfSocket(w, s)
        room == getRoom(w, roomId)
        pi == findPlayerBySocket(room, s)
        player == room.players[pi]
        room1 == [room EXCEPT !.players[pi].isConnected = FALSE]
        w1 == setRoom(w, roomId, room1)
        w2 == [w1 EXCEPT !.discQ = Append(@, [kind |-> "autofill", roomId |-> roomId,
                                               playerId |-> player.id, sock |-> s,
                                               turn |-> room.gameState.turnNumber]),
                         !.disconnectionTimers[player.id] = s]
    IN IF roomId = "" THEN w
       ELSE IF room1.gameState.status = "PLAYING"
            THEN broadcastRoomUpdate(w2, room1)
            ELSE emitRoom(w1, roomId, "room_update", sanitizeRoom(room1))

\* the callback the DISCONNECT handler arms
autoFillAfterGrace(w, e) ==
    LET currentRoom == getRoom(w, e.roomId)
        pi == findPlayerById(currentRoom, e.playerId)
        w1 == autoFillForPlayer(w, e.roomId, e.playerId, TRUE)
        room1 == getRoom(w1, e.roomId)
        w2 == broadcastRoomUpdate(w1, room1)
        w3 == IF currentRoom = NoRoom THEN w
              ELSE IF pi = 0 \/ currentRoom.players[pi].isConnected THEN w
              ELSE IF includes(currentRoom.gameState.submittedPlayerIds, e.playerId) THEN w
              ELSE IF Len(room1.gameState.submittedPlayerIds) = Len(room1.players)
                   THEN advanceTurn(w2, e.roomId)
                   ELSE w2
    IN [w3 EXCEPT !.disconnectionTimers[e.playerId] = NoSocket]

(***************************************************************************)
(* The state machine                                                       *)
(***************************************************************************)
\* no function is being probed
NoProbe == [t |-> 0, n |-> 0, out |-> "none"]

Sockets == {<<u, k>> : u \in Users, k \in 1..(MaxConn + 1)}

Init ==
    /\ rooms = [c \in Codes |-> NoRoom]
    /\ turnTimers = [c \in Codes |-> NoTimer]
    /\ graceQ = <<>>
    /\ discQ = <<>>
    /\ disconnectionTimers = [u \in Users |-> NoSocket]
    /\ conns = [u \in Users |-> 0]
    /\ open = {}
    /\ joined = {}
    /\ deadTurn = <<>>
    /\ nextGen = 0
    /\ faults = 0
    /\ budget = MaxFaults
    /\ probe = NoProbe
    /\ sent = {}
    /\ advLog = <<>>

\* the server's state after a handler or callback has run
Becomes(w) ==
    /\ rooms' = w.rooms
    /\ turnTimers' = w.turnTimers
    /\ graceQ' = w.graceQ
    /\ discQ' = w.discQ
    /\ disconnectionTimers' = w.disconnectionTimers
    /\ open' = w.open
    /\ joined' = w.joined
    /\ deadTurn' = w.deadTurn
    /\ sent' = w.sent
    /\ advLog' = w.advLog
    /\ budget' = budget
    /\ probe' = probe

\* a client event the handler acts on: an event it ignores (an early return, with
\* nothing emitted) leaves the server as it was and is no step
Handled(w) == w # World /\ Becomes(w)

\* an off-nominal client event, within the budget of the run
Fault == faults < budget /\ faults' = faults + 1

\* the client shows the drawing form on draw turns and the guess form on guess turns
OnTurnOf(roomId, action) ==
    /\ rooms[roomId] # NoRoom
    /\ rooms[roomId].gameState.status = "PLAYING"
    /\ getCurrentAction(rooms[roomId].gameState.turnNumber, Len(rooms[roomId].players)) = action

HasEntered(u) ==
    \E c \in Codes : rooms[c] # NoRoom /\ findPlayerById(rooms[c], u) # 0

\* a client opens a connection; its handshake carries its persistent userId
Connect(u) ==
    /\ conns[u] < MaxConn
    /\ conns[u] = 0 =>
            \A j \in 2..Len(UserOrder) : UserOrder[j] = u => HasEntered(UserOrder[j - 1])
    /\ IF \E k \in 1..conns[u] : <<u, k>> \in open THEN Fault ELSE UNCHANGED faults
    /\ conns' = [conns EXCEPT ![u] = @ + 1]
    /\ Becomes([World EXCEPT !.open = @ \cup {<<u, conns[u] + 1>>}])
    /\ UNCHANGED <<nextGen>>

\* a connection closes: socket.io emits disconnecting, empties socket.rooms and
\* emits disconnect, in one synchronous run
Disconnect(s) ==
    /\ s \in open
    /\ Fault
    /\ LET w0 == [World EXCEPT !.open = @ \ {s}]
           w1 == DISCONNECTING(w0, s)
           w2 == [w1 EXCEPT !.joined = {j \in @ : j[1] # s}]
       IN Becomes(DISCONNECT(w2, s))
    /\ UNCHANGED <<conns, nextGen>>

CreateRoom(s, roomId) ==
    /\ s \in open
    /\ rooms[roomId] = NoRoom
    /\ nextGen < MaxRooms
    /\ nextGen' = nextGen + 1
    /\ Becomes(CREATE_ROOM(World, s, roomId, nextGen + 1))
    /\ UNCHANGED <<conns, faults>>

JoinRoom(s, roomId) ==
    /\ s \in open
    /\ Handled(JOIN_ROOM(World, s, roomId))
    /\ UNCHANGED <<conns, nextGen, faults>>

ToggleReady(s, roomId) ==
    /\ s \in open
    /\ Fault
    /\ Handled(TOGGLE_READY(World, s, roomId))
    /\ UNCHANGED <<conns, nextGen>>

StartGame(s, roomId) ==
    /\ s \in open
    /\ IF rooms[roomId] # NoRoom /\ rooms[roomId].gameState.status = "PLAYING"
       THEN Fault ELSE UNCHANGED faults
    /\ Handled(START_GAME(World, s, roomId))
    /\ UNCHANGED <<conns, nextGen>>

SubmitDrawing(s, roomId, drawingData) ==
    /\ s \in open
    /\ IF OnTurnOf(roomId, "draw") THEN UNCHANGED faults ELSE Fault
    /\ Handled(SUBMIT_DRAWING(World, s, roomId, drawingData))
    /\ UNCHANGED <<conns, nextGen>>

SubmitGuess(s, roomId, guessText) ==
    /\ s \in open
    /\ IF OnTurnOf(roomId, "guess") THEN UNCHANGED faults ELSE Fault
    /\ Handled(SUBMIT_GUESS(World, s, roomId, guessText))
    /\ UNCHANGED <<conns, nextGen>>

Unsubmit(s, roomId) ==
    /\ s \in open
    /\ IF OnTurnOf(roomId, "skip") THEN Fault ELSE UNCHANGED faults
    /\ Handled(UNSUBMIT(World, s, roomId))
    /\ UNCHANGED <<conns, nextGen>>

SubmitSkipReady(s, roomId) ==
    /\ s \in open
    /\ Handled(SUBMIT_SKIP_READY(World, s, roomId))
    /\ UNCHANGED <<conns, nextGen, faults>>

EndGame(s, roomId) ==
    /\ s \in open
    /\ Fault
    /\ Handled(END_GAME(World, s, roomId))
    /\ UNCHANGED <<conns, nextGen>>

KickPlayer(s, roomId, playerId) ==
    /\ s \in open
    /\ Fault
    /\ Handled(KICK_PLAYER(World, s, roomId, playerId))
    /\ UNCHANGED <<conns, nextGen>>

\* the room's turn timer expires: its entry is deleted and the grace delay is armed
TurnTimerFires(roomId) ==
    /\ turnTimers[roomId] # NoTimer
    /\ Len(graceQ) < MaxGrace
    /\ Becomes([World EXCEPT
                    !.turnTimers[roomId] = NoTimer,
                    !.graceQ = Append(@, [roomId |-> roomId,
                                          gen |-> turnTimers[roomId].gen,
                                          turn |-> turnTimers[roomId].turn])])
    /\ UNCHANGED <<conns, nextGen, faults>>

\* room.gameState.turnNumber of the room object a callback closed over
capturedTurnNumber(w, roomId, gen) ==
    IF getRoom(w, roomId).gen = gen THEN getRoom(w, roomId).gameState.turnNumber
    ELSE w.deadTurn[gen]

\* a grace callback that lets the turn be
graceCallback_idle(w, e) == w

\* the grace delay of the oldest fired turn timer ends
graceCallback(w, e) ==
    LET currentRoom == getRoom(w, e.roomId)
    IN IF currentRoom # NoRoom
          /\ currentRoom.gameState.turnNumber = capturedTurnNumber(w, e.roomId, e.gen)
       THEN advanceTurn(w, e.roomId)
       ELSE w

GraceDelayEnds ==
    /\ graceQ # <<>>
    /\ Becomes(graceCallback([World EXCEPT !.graceQ = Tail(@)], Head(graceQ)))
    /\ UNCHANGED <<conns, nextGen, faults>>

\* the oldest pending 30 s disconnect callback runs
DisconnectGraceEnds ==
    /\ discQ # <<>>
    /\ LET e == Head(discQ)
           w == [World EXCEPT !.discQ = Tail(@)]
       IN Becomes(IF e.kind = "remove" THEN removeAfterGrace(w, e)
                  ELSE autoFillAfterGrace(w, e))
    /\ UNCHANGED <<conns, nextGen, faults>>

Next ==
    \/ \E u \in Users : Connect(u)
    \/ \E s \in Sockets : Disconnect(s)
    \/ \E s \in Sockets, c \in Codes : CreateRoom(s, c)
    \/ \E s \in Sockets, c \in Codes : JoinRoom(s, c)
    \/ \E s \in Sockets, c \in Codes : ToggleReady(s, c)
    \/ \E s \in Sockets, c \in Codes : StartGame(s, c)
    \/ \E s \in Sockets, c \in Codes, d \in DrawingInputs : SubmitDrawing(s, c, d)
    \/ \E s \in Sockets, c \in Codes, g \in GuessInputs : SubmitGuess(s, c, g)
    \/ \E s \in Sockets, c \in Codes : Unsubmit(s, c)
    \/ \E s \in Sockets, c \in Codes : SubmitSkipReady(s, c)
    \/ \E s \in Sockets, c \in Codes : EndGame(s, c)
    \/ \E s \in Sockets, c \in Codes, t \in Users : KickPlayer(s, c, t)
    \/ \E c \in Codes : TurnTimerFires(c)
    \/ GraceDelayEnds
    \/ DisconnectGraceEnds

Spec == Init /\ [][Next]_vars

\* the room lifecycle with players who never submit: connections, rooms, joins,
\* kicks, game starts and ends, timers and grace callbacks, with a larger budget of
\* off-nominal events
RoomInit ==
    /\ rooms = [c \in Codes |-> NoRoom]
    /\ turnTimers = [c \in Codes |-> NoTimer]
    /\ graceQ = <<>>
    /\ discQ = <<>>
    /\ disconnectionTimers = [u \in Users |-> NoSocket]
    /\ conns = [u \in Users |-> 0]
    /\ open = {}
    /\ joined = {}
    /\ deadTurn = <<>>
    /\ nextGen = 0
    /\ faults = 0
    /\ budget = MaxRoomFaults
    /\ probe = NoProbe
    /\ sent = {}
    /\ advLog = <<>>

RoomNext ==
    \/ \E u \in Users : Connect(u)
    \/ \E s \in Sockets : Disconnect(s)
    \/ \E s \in Sockets, c \in Codes : CreateRoom(s, c)
    \/ \E s \in Sockets, c \in Codes : JoinRoom(s, c)
    \/ \E s \in Sockets, c \in Codes : ToggleReady(s, c)
    \/ \E s \in Sockets, c \in Codes : StartGame(s, c)
    \/ \E s \in Sockets, c \in Codes : EndGame(s, c)
    \/ \E s \in Sockets, c \in Codes, t \in Users : KickPlayer(s, c, t)
    \/ \E c \in Codes : TurnTimerFires(c)
    \/ GraceDelayEnds
    \/ DisconnectGraceEnds

RoomSpec == RoomInit /\ [][RoomNext]_vars

\* getCurrentAction as a function: any turn number and player count, then the call
ProbeInit ==
    /\ rooms = [c \in Codes |-> NoRoom]
    /\ turnTimers = [c \in Codes |-> NoTimer]
    /\ graceQ = <<>>
    /\ discQ = <<>>
    /\ disconnectionTimers = [u \in Users |-> NoSocket]
    /\ conns = [u \in Users |-> 0]
    /\ open = {}
    /\ joined = {}
    /\ deadTurn = <<>>
    /\ nextGen = 0
    /\ faults = 0
    /\ budget = 0
    /\ sent = {}
    /\ advLog = <<>>
    /\ \E t \in 0..MaxTurn, n \in minPlayers..MaxCount :
          probe = [t |-> t, n |-> n, out |-> "none"]

CallGetCurrentAction ==
    /\ probe.out = "none"
    /\ probe' = [probe EXCEPT !.out = getCurrentAction(probe.t, probe.n)]
    /\ UNCHANGED <<rooms, turnTimers, graceQ, discQ, disconnectionTimers, conns, open,
                   joined, deadTurn, nextGen, faults, budget, sent, advLog>>

ProbeNext == CallGetCurrentAction

ProbeSpec == ProbeInit /\ [][ProbeNext]_vars

(***************************************************************************)
(* TurnTimerManager on its own (server/state/TurnTimerManager.ts), called  *)
(* in any order.  probe holds the manager: timers is its Map (room code -> *)
(* handle), pending the setTimeout calls that have neither fired nor been  *)
(* cleared, cleared the ones clearTimeout cancelled, armed their count.    *)
(***************************************************************************)
MaxTimeouts == 4
TimerRooms == {"AAAA", "BBBB"}
\* this.timers has no entry for the room
NoHandle == 0

TurnTimerManager_clearTimer(tm, roomId) ==
    IF tm.timers[roomId] # NoHandle
    THEN [tm EXCEPT !.pending = {p \in @ : p.handle # tm.timers[roomId]},
                    !.cleared = @ \cup {p \in tm.pending : p.handle = tm.timers[roomId]},
                    !.timers[roomId] = NoHandle]
    ELSE tm

\* startTimer that does not clear the room's previous timer
TurnTimerManager_startTimer_over(tm, roomId) ==
    [tm EXCEPT !.armed = @ + 1,
               !.pending = @ \cup {[handle |-> tm.armed + 1, roomId |-> roomId]},
               !.timers[roomId] = tm.armed + 1]

TurnTimerManager_startTimer(tm, roomId) ==
    LET tm1 == TurnTimerManager_clearTimer(tm, roomId)
    IN [tm1 EXCEPT !.armed = @ + 1,
                   !.pending = @ \cup {[handle |-> tm.armed + 1, roomId |-> roomId]},
                   !.timers[roomId] = tm.armed + 1]

\* the setTimeout callback of startTimer: this.timers.delete(roomId), then callback()
TurnTimerManager_timeout(tm, p) ==
    [tm EXCEPT !.pending = @ \ {p},
               !.timers[p.roomId] = NoHandle]

TimerInit ==
    /\ rooms = [c \in Codes |-> NoRoom]
    /\ turnTimers = [c \in Codes |-> NoTimer]
    /\ graceQ = <<>>
    /\ discQ = <<>>
    /\ disconnectionTimers = [u \in Users |-> NoSocket]
    /\ conns = [u \in Users |-> 0]
    /\ open = {}
    /\ joined = {}
    /\ deadTurn = <<>>
    /\ nextGen = 0
    /\ faults = 0
    /\ budget = 0
    /\ sent = {}
    /\ advLog = <<>>
    /\ probe = [timers |-> [c \in TimerRooms |-> NoHandle], pending |-> {},
                cleared |-> {}, armed |-> 0]

ManagerBecomes(tm) ==
    /\ probe' = tm
    /\ UNCHANGED <<rooms, turnTimers, graceQ, discQ, disconnectionTimers, conns, open,
                   joined, deadTurn, nextGen, faults, budget, sent, advLog>>

CallStartTimer(roomId) ==
    /\ probe.armed < MaxTimeouts
    /\ ManagerBecomes(TurnTimerManager_startTimer(probe, roomId))

CallClearTimer(roomId) ==
    /\ TurnTimerManager_clearTimer(probe, roomId) # probe
    /\ ManagerBecomes(TurnTimerManager_clearTimer(probe, roomId))

TimeoutFires(p) ==
    /\ p \in probe.pending
    /\ ManagerBecomes(TurnTimerManager_timeout(probe, p))

TimerNext ==
    \/ \E c \in TimerRooms : CallStartTimer(c)
    \/ \E c \in TimerRooms : CallClearTimer(c)
    \/ \E h \in 1..MaxTimeouts, c \in TimerRooms : TimeoutFires([handle |-> h, roomId |-> c])

TimerSpec == TimerInit /\ [][TimerNext]_vars

(***************************************************************************)
(* The lobby with its settings: connections, rooms, joins and              *)
(* update-settings events.  The client offers the settings to the host     *)
(* only (Lobby.tsx); an update from anyone else is an off-nominal event.   *)
(***************************************************************************)
UpdateSettings(s, roomId, settings) ==
    /\ s \in open
    /\ IF rooms[roomId] # NoRoom
          /\ findPlayerBySocket(rooms[roomId], s) # 0
          /\ rooms[roomId].players[findPlayerBySocket(rooms[roomId], s)].isHost
       THEN UNCHANGED faults ELSE Fault
    /\ Handled(UPDATE_SETTINGS(World, s, roomId, settings))
    /\ UNCHANGED <<conns, nextGen>>

SettingsNext ==
    \/ \E u \in Users : Connect(u)
    \/ \E s \in Sockets, c \in Codes : CreateRoom(s, c)
    \/ \E s \in Sockets, c \in Codes : JoinRoom(s, c)
    \/ \E s \in Sockets, c \in Codes, st \in SettingsInputs : UpdateSettings(s, c, st)

SettingsSpec == Init /\ [][SettingsNext]_vars

\* setTimeout callbacks that are due do run: the turn timer, the grace delay after
\* it and the disconnect grace callbacks
\* (weak fairness of GraceDelayEnds and of DisconnectGraceEnds, written out: the
\* callback at the head of a queue can run exactly when the queue is not empty)
FairSpec ==
    /\ Spec
    /\ \A c \in Codes : WF_vars(TurnTimerFires(c))
    /\ ([]<>(graceQ = <<>>) \/ []<><<GraceDelayEnds>>_vars)
    /\ ([]<>(discQ = <<>>) \/ []<><<DisconnectGraceEnds>>_vars)

(***************************************************************************)
(* Properties                                                              *)
(***************************************************************************)
Live(c) == rooms[c] # NoRoom

GS(c) == rooms[c].gameState

PlayerIds(room) == {room.players[i].id : i \in 1..Len(room.players)}

\* the step is the run of the oldest pending grace-delay callback
GraceCallbackRuns == graceQ # <<>> /\ graceQ' = Tail(graceQ)

\* C1: when the turn timer armed in turn t has fired and the room has since been
\* advanced to turn t+1, the grace-delay callback of that timer leaves the room as it
\* is: the turn index is not incremented a second time and no auto-fill page is added
\* for turn t+1.
C1_StaleGraceCallbackChangesNothing ==
    [][\A c \in Codes :
        (/\ GraceCallbackRuns
         /\ Head(graceQ).roomId = c
         /\ Live(c)
         /\ rooms[c].gen = Head(graceQ).gen
         /\ GS(c).status = "PLAYING"
         /\ GS(c).turnNumber = Head(graceQ).turn + 1)
        => rooms'[c] = rooms[c]]_vars

\* C2: while a room is playing, its turn index is in 0..N-1, N the number of players
\* the game was started with (one book each); and the status changes from playing to
\* reveal only in a step that makes the turn index N.
C2_RevealOnlyWhenTurnIndexIsN ==
    /\ [](\A c \in Codes :
            Live(c) /\ GS(c).status = "PLAYING"
            => GS(c).turnNumber \in 0..(Len(GS(c).books) - 1))
    /\ [][\A c \in Codes :
            (/\ Live(c)
             /\ GS(c).status = "PLAYING"
             /\ rooms'[c] # NoRoom
             /\ rooms'[c].gameState.status = "REVEAL")
            => rooms'[c].gameState.turnNumber = Len(rooms'[c].gameState.books)]_vars

\* C3: while a room is playing, every book is held by a player of the room and no two
\* books are held by the same player.
C3_HoldersArePlayersAndDistinct ==
    \A c \in Codes :
        Live(c) /\ GS(c).status = "PLAYING"
        => /\ \A i \in 1..Len(GS(c).books) :
                GS(c).books[i].currentHolderId \in PlayerIds(rooms[c])
           /\ \A i, j \in 1..Len(GS(c).books) :
                i # j => GS(c).books[i].currentHolderId # GS(c).books[j].currentHolderId

\* C4: a room-update, game-started or turn-advanced message that carries a room in
\* playing status contains no book whose current holder is not the player it is
\* delivered to.
C4_PlayingMessagesCarryOnlyOwnBook ==
    \A m \in sent :
        (m.ev \in {"room_update", "game_started", "turn_advance"} /\ m.body.status = "PLAYING")
        => \A i \in 1..Len(m.body.holders) : m.body.holders[i] = userIdOf(m.to)

\* C5: for every player P, sanitizeRoomForPlayer(room, P) of a playing room has at
\* most one book, every book it has is held by P, and it has one when P holds a book;
\* of a room in lobby or reveal status it has every book of the room.
C5_SanitizeRoomForPlayer ==
    \A c \in Codes : \A P \in Users :
        Live(c) =>
            LET view == sanitizeRoomForPlayer(rooms[c], P)
                books == GS(c).books
            IN IF GS(c).status = "PLAYING"
               THEN /\ Len(view.books) <= 1
                    /\ \A i \in 1..Len(view.books) : view.books[i].currentHolderId = P
                    /\ (\E i \in 1..Len(books) : books[i].currentHolderId = P)
                        => Len(view.books) = 1
               ELSE /\ Len(view.books) = Len(books)
                    /\ \A i \in 1..Len(books) :
                        /\ view.books[i].id = books[i].id
                        /\ view.books[i].currentHolderId = books[i].currentHolderId
                        /\ view.books[i].pages = books[i].pages

\* a playing room in which a player holds two books at once and is shown one
C5_Witness ==
    /\ \E c \in Codes : \E P \in Users :
        /\ Live(c)
        /\ GS(c).status = "PLAYING"
        /\ Cardinality({i \in 1..Len(GS(c).books) : GS(c).books[i].currentHolderId = P}) = 2
        /\ Len(sanitizeRoomForPlayer(rooms[c], P).books) = 1

\* every page of every book of the room is a seed page
OnlySeedPages(room) ==
    \A i \in 1..Len(room.gameState.books) :
        \A k \in 1..Len(room.gameState.books[i].pages) :
            room.gameState.books[i].pages[k].type = "word"

\* C6: in a game started with an odd number of players (one book each) no page is
\* appended to any book while the turn index is 0, and when the turn index becomes 1
\* every book still has seed pages only.
C6_NoPageInSkipRound ==
    /\ [](\A c \in Codes :
            (/\ Live(c)
             /\ GS(c).status = "PLAYING"
             /\ Len(GS(c).books) % 2 = 1
             /\ GS(c).turnNumber = 0)
            => OnlySeedPages(rooms[c]))
    /\ [][\A c \in Codes :
            (/\ Live(c)
             /\ GS(c).status = "PLAYING"
             /\ Len(GS(c).books) % 2 = 1
             /\ GS(c).turnNumber = 0
             /\ rooms'[c] # NoRoom
             /\ rooms'[c].gameState.status = "PLAYING"
             /\ rooms'[c].gameState.turnNumber = 1)
            => OnlySeedPages(rooms'[c])]_vars

\* the step is the run of the oldest pending disconnect callback
DisconnectCallbackRuns == discQ # <<>> /\ discQ' = Tail(discQ)

\* the last page of the book is an auto-fill page of the player, marked disconnected
LastPageIsDisconnectFill(book, playerId) ==
    /\ Len(book.pages) > 0
    /\ book.pages[Len(book.pages)].playerId = playerId
    /\ book.pages[Len(book.pages)].content = <<>>
    /\ book.pages[Len(book.pages)].disconnected = "true"

\* C7: when the grace period of a player who disconnected in turn t of a game ends
\* while the room is still playing turn t, the player has not reconnected and is not
\* in the submitted set, then the book the player holds gets, as its last page, an
\* auto-fill page of that player with empty content and disconnected = true, the
\* player is in the submitted set (or the turn has advanced), and the turn advances
\* in that step when every other player had submitted.
C7_GraceExpiryAutoFillsDisconnectedPlayer ==
    [][\A c \in Codes :
        (/\ DisconnectCallbackRuns
         /\ Head(discQ).kind = "autofill"
         /\ Head(discQ).roomId = c
         /\ Live(c)
         /\ GS(c).status = "PLAYING"
         /\ GS(c).turnNumber = Head(discQ).turn
         /\ ~includes(GS(c).submittedPlayerIds, Head(discQ).playerId)
         /\ \A i \in 1..Len(rooms[c].players) :
                rooms[c].players[i].id = Head(discQ).playerId
                => ~rooms[c].players[i].isConnected
         /\ findHeldBook(rooms[c], Head(discQ).playerId) # 0
         /\ getCurrentAction(GS(c).turnNumber, Len(GS(c).books)) # "skip")
        => /\ rooms'[c] # NoRoom
           /\ LastPageIsDisconnectFill(
                rooms'[c].gameState.books[findHeldBook(rooms[c], Head(discQ).playerId)],
                Head(discQ).playerId)
           /\ \/ includes(rooms'[c].gameState.submittedPlayerIds, Head(discQ).playerId)
              \/ rooms'[c].gameState.turnNumber = GS(c).turnNumber + 1
           /\ (\A i \in 1..Len(rooms[c].players) :
                  \/ rooms[c].players[i].id = Head(discQ).playerId
                  \/ includes(GS(c).submittedPlayerIds, rooms[c].players[i].id))
              => rooms'[c].gameState.turnNumber = GS(c).turnNumber + 1]_vars

\* the pages of book i grew by one auto-fill page of the book's holder
GrewByAutoFill(before, after, i) ==
    LET old == before.gameState.books[i].pages
        new == after.gameState.books[i].pages
        h   == findPlayerById(before, before.gameState.books[i].currentHolderId)
    IN /\ Len(new) = Len(old) + 1
       /\ SubSeq(new, 1, Len(old)) = old
       /\ h # 0
       /\ new[Len(new)].playerId = before.players[h].id
       /\ new[Len(new)].content = <<>>
       /\ new[Len(new)].disconnected = "true" <=> ~before.players[h].isConnected
       /\ new[Len(new)].disconnected \in {"true", "false"}

\* what C8 and its literal reading share: the book list keeps its length, a book
\* either keeps its pages or grows by one auto-fill page of a holder who had not
\* submitted, and no book held by a submitted player grows
AutoFillTouchesOnlyMissing(before, after) ==
    LET bs == before.gameState.books
    IN /\ Len(after.gameState.books) = Len(bs)
       /\ \A i \in 1..Len(bs) :
             \/ after.gameState.books[i].pages = bs[i].pages
             \/ /\ GrewByAutoFill(before, after, i)
                /\ ~includes(before.gameState.submittedPlayerIds, bs[i].currentHolderId)
       /\ \A i \in 1..Len(before.players) :
             includes(before.gameState.submittedPlayerIds, before.players[i].id)
             => \A j \in 1..Len(bs) :
                   bs[j].currentHolderId = before.players[i].id
                   => after.gameState.books[j].pages = bs[j].pages

\* the books held by player i that grew by an auto-fill page
GrownBooksOf(before, after, i) ==
    {j \in 1..Len(before.gameState.books) :
        /\ before.gameState.books[j].currentHolderId = before.players[i].id
        /\ GrewByAutoFill(before, after, j)}

AwaitsReconnect(c, u) ==
    /\ Live(c)
    /\ GS(c).status = "PLAYING"
    /\ findPlayerById(rooms[c], u) # 0
    /\ ~rooms[c].players[findPlayerById(rooms[c], u)].isConnected
    /\ \E k \in 1..Len(discQ) :
          /\ discQ[k].kind = "autofill"
          /\ discQ[k].roomId = c
          /\ discQ[k].playerId = u
          /\ discQ[k].sock = rooms[c].players[findPlayerById(rooms[c], u)].socketId

\* C9: a player who disconnected while the room was playing and sends join-room
\* with the same identity on a new connection before being removed is accepted as
\* a reconnect: isConnected becomes true, socketId is the new connection, and the
\* books, the ready flag and the host flag are as before.
C9_ReconnectWhilePlaying ==
    \A c \in Codes : \A s \in open :
        AwaitsReconnect(c, userIdOf(s))
        => LET pi  == findPlayerById(rooms[c], userIdOf(s))
               now == getRoom(JOIN_ROOM(World, s, c), c)
           IN /\ now # NoRoom
              /\ Len(now.players) = Len(rooms[c].players)
              /\ now.players[pi].id = userIdOf(s)
              /\ now.players[pi].isConnected
              /\ now.players[pi].socketId = s
              /\ now.players[pi].isReady = rooms[c].players[pi].isReady
              /\ now.players[pi].isHost = rooms[c].players[pi].isHost
              /\ now.gameState.books = GS(c).books

\* the game state of the room is the one end-game leaves
IsReset(gs) ==
    /\ gs.status = "LOBBY"
    /\ gs.turnNumber = 0
    /\ gs.books = <<>>
    /\ gs.submittedPlayerIds = <<>>

\* C10: a step that takes a room from a game back to lobby status (an accepted
\* end-game) leaves it with turn index 0, no books and an empty submitted set; a
\* room in that state stays in it until a step starts a game (status playing), so
\* no timer of the ended game changes it; and an end-game from a connection that is
\* not the host's changes nothing.
C10_EndGameResetsUntilStart ==
    /\ [][\A c \in Codes :
            (/\ Live(c)
             /\ rooms'[c] # NoRoom
             /\ rooms'[c].gen = rooms[c].gen)
            => /\ (GS(c).status # "LOBBY" /\ rooms'[c].gameState.status = "LOBBY")
                  => IsReset(rooms'[c].gameState)
               /\ IsReset(GS(c))
                  => \/ IsReset(rooms'[c].gameState)
                     \/ rooms'[c].gameState.status = "PLAYING"]_vars
    /\ [](\A c \in Codes : \A s \in open :
            (/\ Live(c)
             /\ \/ findPlayerBySocket(rooms[c], s) = 0
                \/ ~rooms[c].players[findPlayerBySocket(rooms[c], s)].isHost)
            => END_GAME(World, s, c) = World)

\* the submissions a connection can send: the handler applied to the server's state
Submissions(s, c) ==
    {SUBMIT_DRAWING(World, s, c, d) : d \in DrawingInputs}
        \cup {SUBMIT_GUESS(World, s, c, g) : g \in GuessInputs}

\* w is the server after a submission of s that was accepted and left the turn open
AcceptedMidTurn(w, s, c) ==
    /\ Live(c)
    /\ getRoom(w, c) # rooms[c]
    /\ getRoom(w, c).gameState.status = "PLAYING"
    /\ getRoom(w, c).gameState.turnNumber = GS(c).turnNumber
    /\ includes(getRoom(w, c).gameState.submittedPlayerIds, userIdOf(s))

\* C11: when a submit-drawing or submit-guess of player P is accepted and does not
\* complete the turn, an un-submit by P right after it gives back the room as it was
\* before the submission: the book's pages, the submitted set (without P) and every
\* other book.
C11_UnsubmitUndoesSubmit ==
    \A c \in Codes : \A s \in open : \A w \in Submissions(s, c) :
        AcceptedMidTurn(w, s, c)
        => /\ getRoom(w, c).gameState.books # GS(c).books
           /\ getRoom(UNSUBMIT(w, s, c), c) = rooms[c]

\* a player who holds a book that already has pages of earlier turns can submit
\* without completing the turn and then un-submit
C11_Witness ==
    \E c \in Codes : \E s \in open : \E w \in Submissions(s, c) :
        /\ AcceptedMidTurn(w, s, c)
        /\ GS(c).turnNumber > 0
        /\ findPlayerBySocket(rooms[c], s) # 0
        /\ Len(GS(c).books[findHeldBook(rooms[c], userIdOf(s))].pages) > 1
        /\ UNSUBMIT(w, s, c) # w

\* nobody has left the game of the room: every player is connected, there is one
\* book per player and every book was created for a player of the room
NoDepartures(room) ==
    /\ Len(room.players) = Len(room.gameState.books)
    /\ \A i \in 1..Len(room.players) : room.players[i].isConnected
    /\ \A i \in 1..Len(room.gameState.books) :
          findPlayerById(room, room.gameState.books[i].id) # 0

\* C12: when the status of a room with N players and no departures becomes reveal,
\* every book has its seed page and one page per content turn: N + 1 pages when N is
\* even, N pages when N is odd.
C12_PagesAtReveal ==
    [][\A c \in Codes :
        (/\ Live(c)
         /\ GS(c).status = "PLAYING"
         /\ rooms'[c] # NoRoom
         /\ rooms'[c].gameState.status = "REVEAL"
         /\ NoDepartures(rooms'[c]))
        => \A i \in 1..Len(rooms'[c].gameState.books) :
              Len(rooms'[c].gameState.books[i].pages) =
                 IF Len(rooms'[c].players) % 2 = 0
                 THEN Len(rooms'[c].players) + 1
                 ELSE Len(rooms'[c].players)]_vars

\* C13: with the timer callbacks running when due, a room in playing status does
\* not stay in it for ever, even if nobody submits: it reaches reveal status, or is
\* deleted because its players were removed, or (only when the host sends end-game)
\* goes back to lobby; without client messages the first two are what remains.
C13_PlayingRoomFinishes ==
    \A c \in Codes :
        (Live(c) /\ GS(c).status = "PLAYING")
            ~> (rooms[c] = NoRoom \/ GS(c).status \in {"REVEAL", "LOBBY"})

\* a game reached reveal with nobody having submitted: every page after the seed
\* is an auto-fill page of a connected player
C13_Witness ==
    \E c \in Codes :
        /\ Live(c)
        /\ GS(c).status = "REVEAL"
        /\ Len(GS(c).books) >= 2
        /\ \A i \in 1..Len(GS(c).books) :
              /\ Len(GS(c).books[i].pages) > 1
              /\ \A k \in 2..Len(GS(c).books[i].pages) :
                    /\ GS(c).books[i].pages[k].content = <<>>
                    /\ GS(c).books[i].pages[k].disconnected = "false"

\* the players of the room with isHost = true
Hosts(room) == {i \in 1..Len(room.players) : room.players[i].isHost}

\* C14: every room in the registry has exactly one player with isHost = true.
C14_ExactlyOneHost ==
    \A c \in Codes : Live(c) => Cardinality(Hosts(rooms[c])) = 1

\* the creator of a room has been removed after the grace period and the host flag
\* is with a player who joined later
C14_Witness ==
    \E c \in Codes :
        /\ Live(c)
        /\ Len(rooms[c].players) >= 1
        /\ rooms[c].players[1].isHost
        /\ rooms[c].players[1].id # UserOrder[1]
        /\ findPlayerById(rooms[c], UserOrder[1]) = 0

\* the ids of the players of the room, in the order of the player list
IdsOf(room) == [i \in 1..Len(room.players) |-> room.players[i].id]

GameOverSent(c, msgs, members) ==
    \E m \in msgs : m.ev = "game_over" /\ <<m.to, c>> \in members

\* C16: game-over is emitted only in the step that takes the room from playing to
\* reveal, and it is emitted in that step; once the room is in reveal status, its
\* status and turn index stay as they are until a start-game (status playing) or an
\* end-game (status lobby) is accepted.
C16_GameOverOnceAndRevealStable ==
    [][\A c \in Codes :
        /\ GameOverSent(c, sent', joined')
           => /\ Live(c)
              /\ GS(c).status = "PLAYING"
              /\ rooms'[c] # NoRoom
              /\ rooms'[c].gameState.status = "REVEAL"
        /\ (/\ Live(c)
            /\ GS(c).status = "PLAYING"
            /\ rooms'[c] # NoRoom
            /\ rooms'[c].gameState.status = "REVEAL"
            /\ \E s \in open' : <<s, c>> \in joined')
           => GameOverSent(c, sent', joined')
        /\ (/\ Live(c)
            /\ GS(c).status = "REVEAL"
            /\ rooms'[c] # NoRoom)
           => \/ /\ rooms'[c].gameState.status = "REVEAL"
                 /\ rooms'[c].gameState.turnNumber = GS(c).turnNumber
              \/ rooms'[c].gameState.status \in {"PLAYING", "LOBBY"}]_vars

\* the server with the books that identity id holds taken out of room c
Bookless(w, c, id) ==
    [w EXCEPT !.rooms[c].gameState.books = SelectSeq(@, LAMBDA b : b.currentHolderId # id)]

\* every submit-drawing and submit-guess of connection s for room c leaves server w
\* exactly as it is: no page, no change of the submitted set or the turn, no message
SubmitIgnored(w, s, c) ==
    /\ \A d \in DrawingInputs : SUBMIT_DRAWING(w, s, c, d) = w
    /\ \A g \in GuessInputs : SUBMIT_GUESS(w, s, c, g) = w

\* C17: submit-drawing and submit-guess change nothing when the room does not exist
\* or is not in playing status, when the sending connection is no player's, when
\* the player is already in the submitted set, and when the player holds no book.
\* (Every player of a reachable playing room holds a book, so the last case is
\* applied to the room with that player's books taken out.)
C17_SubmitRejected ==
    \A c \in Codes : \A s \in open :
        /\ (~Live(c) \/ GS(c).status # "PLAYING") => SubmitIgnored(World, s, c)
        /\ (Live(c) /\ findPlayerBySocket(rooms[c], s) = 0) => SubmitIgnored(World, s, c)
        /\ (/\ Live(c)
            /\ findPlayerBySocket(rooms[c], s) # 0
            /\ includes(GS(c).submittedPlayerIds,
                        rooms[c].players[findPlayerBySocket(rooms[c], s)].id))
           => SubmitIgnored(World, s, c)
        /\ (Live(c) /\ findPlayerBySocket(rooms[c], s) # 0)
           => SubmitIgnored(
                Bookless(World, c, rooms[c].players[findPlayerBySocket(rooms[c], s)].id),
                s, c)

\* a playing room with a connected player who has submitted and another who has
\* not and holds a book, and an open connection that is no player's
C17_Witness ==
    \E c \in Codes : \E s, t, x \in open :
        /\ Live(c)
        /\ GS(c).status = "PLAYING"
        /\ findPlayerBySocket(rooms[c], s) # 0
        /\ includes(GS(c).submittedPlayerIds, userIdOf(s))
        /\ findPlayerBySocket(rooms[c], t) # 0
        /\ ~includes(GS(c).submittedPlayerIds, userIdOf(t))
        /\ findHeldBook(rooms[c], userIdOf(t)) # 0
        /\ \E d \in DrawingInputs : SUBMIT_DRAWING(World, t, c, d) # World
        /\ findPlayerBySocket(rooms[c], x) = 0

\* C18: getCurrentAction(t, n), t >= 0 and n >= 2: for odd n it is skip at t = 0,
\* draw at odd t and guess at even t >= 2; for even n it is draw at even t and
\* guess at odd t; it is skip for no even n and no t > 0.
C18_GetCurrentAction ==
    probe.out # "none"
    => /\ (probe.n % 2 = 1 /\ probe.t = 0) => probe.out = "skip"
       /\ (probe.n % 2 = 1 /\ probe.t % 2 = 1) => probe.out = "draw"
       /\ (probe.n % 2 = 1 /\ probe.t % 2 = 0 /\ probe.t >= 2) => probe.out = "guess"
       /\ (probe.n % 2 = 0 /\ probe.t % 2 = 0) => probe.out = "draw"
       /\ (probe.n % 2 = 0 /\ probe.t % 2 = 1) => probe.out = "guess"
       /\ (probe.n % 2 = 0 \/ probe.t > 0) => probe.out # "skip"

\* getCurrentAction has been called for an odd player count at an even turn after
\* the skip round
C18_Witness ==
    /\ probe.out = "guess"
    /\ probe.n % 2 = 1
    /\ probe.t >= 2

\* the server with the player list of room c filled up to n players with players
\* of other identities
Padded(w, c, n) ==
    [w EXCEPT !.rooms[c].players =
        @ \o [k \in 1..(n - Len(@)) |->
                [id |-> <<"other", k>>, socketId |-> <<"other", k>>, isReady |-> FALSE,
                 isConnected |-> TRUE, isHost |-> FALSE]]]

\* the join-room of connection s is refused by server w: nothing changes
JoinRefused(w, s, c, error) ==
    /\ JOIN_ROOM(w, s, c) = w
    /\ JOIN_ROOM_reply(w, s, c) = error

\* the join-room of connection s adds s's identity at the end of the players of c
JoinAppends(w, s, c) ==
    LET old == getRoom(w, c)
        now == getRoom(JOIN_ROOM(w, s, c), c)
    IN /\ JOIN_ROOM_reply(w, s, c) = "room"
       /\ now.players = Append(old.players,
                               [id |-> userIdOf(s), socketId |-> s, isReady |-> FALSE,
                                isConnected |-> TRUE, isHost |-> FALSE])
       /\ now.gameState = old.gameState
       /\ Len(now.players) <= maxPlayers

\* C19: a join-room from an identity that is not in the room is refused with an
\* error and changes nothing when the room does not exist, when its status is not
\* lobby, or when it has maxPlayers players; otherwise one player is appended at the
\* end of the player list with isHost = false, isReady = false, isConnected = true.
\* No room has more than maxPlayers players.  (Rooms of maxPlayers and of
\* maxPlayers - 1 players are the reachable lobby rooms filled up with players of
\* other identities.)
C19_JoinRoom ==
    \A c \in Codes :
        /\ Live(c) => Len(rooms[c].players) <= maxPlayers
        /\ \A s \in open :
            (~Live(c) \/ findPlayerById(rooms[c], userIdOf(s)) = 0)
            => /\ ~Live(c) => JoinRefused(World, s, c, "Room not found")
               /\ (Live(c) /\ GS(c).status # "LOBBY")
                    => JoinRefused(World, s, c, "Game already in progress")
               /\ (Live(c) /\ GS(c).status = "LOBBY")
                    => /\ JoinAppends(World, s, c)
                       /\ JoinAppends(Padded(World, c, maxPlayers - 1), s, c)
                       /\ JoinRefused(Padded(World, c, maxPlayers), s, c, "Room is full")

\* a room that is being played, whose second player came in by a join-room, and an
\* open connection of an identity that is not in the room
C19_Witness ==
    \E c \in Codes : \E s \in open :
        /\ Live(c)
        /\ GS(c).status = "PLAYING"
        /\ Len(rooms[c].players) = 2
        /\ ~rooms[c].players[2].isHost
        /\ ~rooms[c].players[2].isReady
        /\ rooms[c].players[2].isConnected
        /\ findPlayerById(rooms[c], userIdOf(s)) = 0
        /\ JOIN_ROOM(World, s, c) = World

\* connection s is the socket of the host of room c
IsHostSocket(s, c) ==
    \E i \in 1..Len(rooms[c].players) :
        /\ rooms[c].players[i].socketId = s
        /\ rooms[c].players[i].isHost

\* C20: a start-game sent by a socket that is not the socket of the room's host,
\* or sent while the room has fewer than minPlayers players, changes nothing:
\* status, books, turn number, submitted list and pending timers stay as they are.
C20_StartGameRefused ==
    \A c \in Codes : \A s \in Sockets :
        (Live(c) /\ (~IsHostSocket(s, c) \/ Len(rooms[c].players) < minPlayers))
        => START_GAME(World, s, c) = World

\* a game in progress, its turn timer pending, in a room left with its host alone,
\* whose connection is open; and a start-game of the host changes nothing
C20_Witness ==
    \E c \in Codes : \E s \in open :
        /\ Live(c)
        /\ GS(c).status = "PLAYING"
        /\ turnTimers[c] # NoTimer
        /\ Len(rooms[c].players) = 1
        /\ Len(GS(c).books) >= minPlayers
        /\ IsHostSocket(s, c)
        /\ START_GAME(World, s, c) = World

\* the player list without its element at position i
WithoutPlayer(players, i) ==
    [j \in 1..(Len(players) - 1) |-> IF j < i THEN players[j] ELSE players[j + 1]]

\* C21: kick-player removes exactly the target from the room's player list when
\* the requester is the host and the target is another player of the room; when the
\* requester is not the host, targets themselves, or names an identity that is not
\* in the room, the player list is unchanged.
C21_KickPlayer ==
    \A c \in Codes : \A s \in Sockets : \A u \in Users :
        Live(c) =>
            LET old == rooms[c].players
                now == getRoom(KICK_PLAYER(World, s, c, u), c).players
                ti == findPlayerById(rooms[c], u)
            IN IF IsHostSocket(s, c) /\ ti # 0 /\ userIdOf(s) # u
               THEN now = WithoutPlayer(old, ti)
               ELSE now = old

\* the host has just kicked a player: the target was told so and is no longer in
\* the room, where a non-host player remains
C21_Witness ==
    \E c \in Codes : \E m \in sent :
        /\ m.ev = "kicked"
        /\ Live(c)
        /\ findPlayerById(rooms[c], userIdOf(m.to)) = 0
        /\ Len(rooms[c].players) = 2

\* every submission connection s can send to room c, skip acknowledgement included:
\* the handler applied to the server's state
AllSubmissions(s, c) == Submissions(s, c) \cup {SUBMIT_SKIP_READY(World, s, c)}

\* every player in the player list of room c is in its submitted list once the
\* player of connection s is recorded
CompleteWith(s, c) ==
    \A i \in 1..Len(rooms[c].players) :
        \/ rooms[c].players[i].socketId = s
        \/ includes(GS(c).submittedPlayerIds, rooms[c].players[i].id)

\* C22: a submission (drawing, guess or skip acknowledgement) that is recorded
\* triggers advancement exactly when, after it is recorded, every player in the
\* room's player list is in the submitted set; ids of players who have left the
\* room do not count.
C22_AdvanceWhenEveryPlayerSubmitted ==
    \A c \in Codes : \A s \in open :
        Live(c) =>
            \A w \in AllSubmissions(s, c) :
                w # World => ((w.advLog # <<>>) <=> CompleteWith(s, c))

\* the pending removal callbacks armed by disconnections of player u
PendingRemovals(u) ==
    SelectSeq(discQ, LAMBDA e : e.kind = "remove" /\ e.playerId = u)

\* no removal callback is pending for a connected player, and at most one for any
NoLeftoverGraceTimer ==
    \A u \in Users :
        /\ Len(PendingRemovals(u)) <= 1
        /\ \A c \in Codes :
            (/\ Live(c)
             /\ findPlayerById(rooms[c], u) # 0
             /\ rooms[c].players[findPlayerById(rooms[c], u)].isConnected)
            => \A i \in 1..Len(discQ) :
                ~(discQ[i].kind = "remove" /\ discQ[i].playerId = u /\ discQ[i].roomId = c)

\* a step in which a removal callback takes a player out of the room is the callback
\* armed when the socket the player last had was disconnected
RemovedByLatestGraceTimer ==
    \A c \in Codes : \A u \in Users :
        (/\ Live(c)
         /\ findPlayerById(rooms[c], u) # 0
         /\ discQ # <<>>
         /\ discQ' = Tail(discQ)
         /\ \/ rooms'[c] = NoRoom
            \/ findPlayerById(rooms'[c], u) = 0)
        => Head(discQ).sock = rooms[c].players[findPlayerById(rooms[c], u)].socketId

\* C23: a player who reconnects has every pending disconnect grace timer armed for
\* them cancelled, so at most one grace timer per player is pending, and a player is
\* removed from the room only by the grace timer armed at their most recent
\* disconnection.
C23_ReconnectCancelsGraceTimers ==
    /\ []NoLeftoverGraceTimer
    /\ [][RemovedByLatestGraceTimer]_vars

\* the step is a start-game acted on for room c: its books are created anew
Restarted(c) ==
    \E s \in open :
        /\ START_GAME(World, s, c) # World
        /\ rooms'[c] = getRoom(START_GAME(World, s, c), c)

\* the step is an un-submit acted on for room c
Unsubmitted(c) ==
    \E s \in open :
        /\ UNSUBMIT(World, s, c) # World
        /\ rooms'[c] = getRoom(UNSUBMIT(World, s, c), c)

\* C24: the only operation that removes a page from a book is un-submit, and it
\* only removes a page that was appended during the current turn: never a book's
\* seed page or a page of an earlier turn, also after a skip acknowledgement in the
\* skip round.  (Every other step of a game keeps the pages of every book and may
\* append to them.)
C24_OnlyUnsubmitRemovesCurrentTurnPage ==
    [][\A c \in Codes :
        (/\ Live(c)
         /\ rooms'[c] # NoRoom
         /\ rooms'[c].gen = rooms[c].gen
         /\ GS(c).status = "PLAYING"
         /\ rooms'[c].gameState.status # "LOBBY"
         /\ ~Restarted(c))
        => /\ Len(rooms'[c].gameState.books) = Len(GS(c).books)
           /\ \A i \in 1..Len(GS(c).books) :
                LET old == GS(c).books[i].pages
                    new == rooms'[c].gameState.books[i].pages
                IN \/ /\ Len(new) >= Len(old)
                      /\ SubSeq(new, 1, Len(old)) = old
                   \/ /\ Unsubmitted(c)
                      /\ new = SubSeq(old, 1, Len(old) - 1)
                      /\ old[Len(old)].type # "word"
                      /\ old[Len(old)].turn = GS(c).turnNumber]_vars

\* the turn timer the room of w has pending once a turn has been advanced: the one
\* armed for its new turn, none when the game went to reveal
TimerAfterAdvance(w, c) ==
    IF getRoom(w, c).gameState.status = "REVEAL" THEN NoTimer
    ELSE [gen |-> getRoom(w, c).gen, turn |-> getRoom(w, c).gameState.turnNumber]

\* C25: when the submission that completes turn t arrives before the turn timer of
\* turn t has fired, the advancement cancels that timer: it does not fire (no grace
\* delay is armed), and the only turn timer pending for the room afterwards is the
\* one armed for turn t + 1, none if the game went to reveal.  While a game is
\* played a pending turn timer is the one of the current turn.
C25_AdvancementCancelsTurnTimer ==
    \A c \in Codes :
        Live(c) =>
            /\ (GS(c).status = "PLAYING" /\ turnTimers[c] # NoTimer)
                => turnTimers[c] = [gen |-> rooms[c].gen, turn |-> GS(c).turnNumber]
            /\ \A s \in open : \A w \in AllSubmissions(s, c) :
                (w.advLog # <<>> /\ turnTimers[c] # NoTimer)
                => /\ getRoom(w, c).gameState.turnNumber = GS(c).turnNumber + 1
                   /\ w.turnTimers[c] = TimerAfterAdvance(w, c)
                   /\ w.graceQ = graceQ

\* a turn has just been advanced by the submission that completed it, while its
\* timer was pending: every player had submitted a page of their own, no grace
\* delay is running, and the timer of the new turn is pending
C25_Witness ==
    \E c \in Codes :
        /\ Live(c)
        /\ GS(c).status = "PLAYING"
        /\ GS(c).turnNumber >= 1
        /\ advLog # <<>>
        /\ Len(advLog[1].before.gameState.submittedPlayerIds) = Len(rooms[c].players)
        /\ \A i \in 1..Len(GS(c).books) :
            LET pages == GS(c).books[i].pages
            IN /\ pages[Len(pages)].turn = GS(c).turnNumber - 1
               /\ pages[Len(pages)].disconnected = undefined
        /\ graceQ = <<>>
        /\ turnTimers[c] = [gen |-> rooms[c].gen, turn |-> GS(c).turnNumber]

\* the turn timer of the current turn of room c has fired and its grace delay is
\* running
GraceDelayRunning(c) ==
    /\ Live(c)
    /\ GS(c).status = "PLAYING"
    /\ graceQ # <<>>
    /\ Head(graceQ) = [roomId |-> c, gen |-> rooms[c].gen, turn |-> GS(c).turnNumber]

\* the pages of book bi of room c that player id wrote in turn t
PagesOfTurn(room, bi, id, t) ==
    SelectSeq(room.gameState.books[bi].pages, LAMBDA p : p.playerId = id /\ p.turn = t)

\* w is the server after a submission of connection s, of the given type and
\* content, was accepted: the page is appended to the book the player held, and
\* when the grace callback then runs the book holds no other page of the player
\* for that turn
LateSubmissionStands(w, s, c, type, content) ==
    LET pi == findPlayerBySocket(rooms[c], s)
        id == rooms[c].players[pi].id
        bi == findHeldBook(rooms[c], id)
        page == [type |-> type, playerId |-> id, content |-> content,
                 disconnected |-> undefined, turn |-> GS(c).turnNumber]
        wg == graceCallback([w EXCEPT !.graceQ = Tail(@)], Head(w.graceQ))
    IN /\ getRoom(w, c).gameState.books[bi].pages = Append(GS(c).books[bi].pages, page)
       /\ w.graceQ = graceQ
       /\ PagesOfTurn(getRoom(wg, c), bi, id, GS(c).turnNumber) = <<page>>

\* C26: a submission from a player who has not yet submitted, received after the
\* turn timer fired and before its grace callback runs, is accepted as the player's
\* contribution for the turn: the page with the submitted content is appended to
\* the book they hold, and no auto-fill page is created for them in that turn.
C26_LateSubmissionAccepted ==
    \A c \in Codes : \A s \in open :
        (/\ GraceDelayRunning(c)
         /\ findPlayerBySocket(rooms[c], s) # 0
         /\ ~includes(GS(c).submittedPlayerIds, userIdOf(s)))
        => /\ findHeldBook(rooms[c], userIdOf(s)) # 0
           /\ \A d \in DrawingInputs :
                SubmitDrawingSchema(d)
                => LateSubmissionStands(SUBMIT_DRAWING(World, s, c, d), s, c, "draw", d)
           /\ \A g \in GuessInputs :
                SubmitGuessSchema(g)
                => LateSubmissionStands(SUBMIT_GUESS(World, s, c, g), s, c, "guess", trim(g))

\* the grace delay of the current turn is running, one player has submitted and
\* another, whose connection is open and who holds a book, has not
C26_Witness ==
    \E c \in Codes : \E s \in open :
        /\ GraceDelayRunning(c)
        /\ turnTimers[c] = NoTimer
        /\ Len(GS(c).submittedPlayerIds) = 1
        /\ findPlayerBySocket(rooms[c], s) # 0
        /\ ~includes(GS(c).submittedPlayerIds, userIdOf(s))
        /\ findHeldBook(rooms[c], userIdOf(s)) # 0
        /\ \E d \in DrawingInputs : SUBMIT_DRAWING(World, s, c, d) # World

\* the timeouts pending for a room in manager tm
PendingFor(tm, roomId) == {p \in tm.pending : p.roomId = roomId}

\* C27: at every moment the turn timer registry holds at most one pending timer per
\* room: startTimer cancels the room's previous timer before arming the new one, a
\* timer that fires removes its own entry, and clearTimer on a room with no pending
\* timer changes nothing.
C27_OneTurnTimerPerRoom ==
    \A c \in TimerRooms :
        LET started == TurnTimerManager_startTimer(probe, c)
        IN /\ Cardinality(PendingFor(probe, c)) <= 1
           /\ PendingFor(probe, c) =
                IF probe.timers[c] = NoHandle THEN {}
                ELSE {[handle |-> probe.timers[c], roomId |-> c]}
           /\ PendingFor(started, c) = {[handle |-> started.timers[c], roomId |-> c]}
           /\ PendingFor(probe, c) \cap started.pending = {}
           /\ \A p \in PendingFor(probe, c) :
                /\ TurnTimerManager_timeout(probe, p).timers[c] = NoHandle
                /\ PendingFor(TurnTimerManager_timeout(probe, p), c) = {}
           /\ probe.timers[c] = NoHandle => TurnTimerManager_clearTimer(probe, c) = probe

\* a room whose timer was started over a pending one, which was cancelled, while
\* another room has a timer pending and a third timer has fired
C27_Witness ==
    \E c, d \in TimerRooms :
        /\ c # d
        /\ probe.timers[c] # NoHandle
        /\ \E p \in probe.cleared : p.roomId = c /\ p.handle < probe.timers[c]
        /\ probe.timers[d] # NoHandle
        /\ probe.armed > Cardinality(probe.pending) + Cardinality(probe.cleared)

\* server w has the rooms and turn timers of the current state and has emitted
\* nothing
NoRoomStateChanged(w) ==
    /\ w.rooms = rooms
    /\ w.turnTimers = turnTimers
    /\ w.sent = {}
    /\ w.advLog = <<>>

\* the room of a pending disconnect callback is gone, or its player has been
\* removed from the room or has reconnected
DisconnectCallbackIsStale(e) ==
    \/ rooms[e.roomId] = NoRoom
    \/ findPlayerById(rooms[e.roomId], e.playerId) = 0
    \/ rooms[e.roomId].players[findPlayerById(rooms[e.roomId], e.playerId)].isConnected

NoEmptyRoom ==
    \A c \in Codes : Live(c) => Len(rooms[c].players) >= 1

\* a step that takes room c out of the registry is the removal callback of its
\* only player, who is disconnected, at the end of the grace period
DeletedWithLastPlayer(c) ==
    (Live(c) /\ rooms'[c] = NoRoom)
    => /\ Len(rooms[c].players) = 1
       /\ ~rooms[c].players[1].isConnected
       /\ discQ # <<>>
       /\ discQ' = Tail(discQ)
       /\ Head(discQ).kind = "remove"
       /\ Head(discQ).roomId = c
       /\ Head(discQ).playerId = rooms[c].players[1].id

SamePlayersAsAtStart(room) ==
    /\ Len(room.players) = Len(room.gameState.books)
    /\ \A i \in 1..Len(room.players) : room.gameState.books[i].id = room.players[i].id

\* C30: in a game with N players and no departures, at every turn t in 0..N-1 the
\* book created for the player at index i of the player list is held by the player
\* at index (i + t) mod N; hence for 1 <= t <= N-1 no player holds the book they own.
C30_BookOfPlayerIHeldByIPlusT ==
    \A c \in Codes :
        (/\ Live(c)
         /\ GS(c).status = "PLAYING"
         /\ SamePlayersAsAtStart(rooms[c])
         /\ GS(c).turnNumber \in 0..(Len(rooms[c].players) - 1))
        => LET N == Len(rooms[c].players)
               t == GS(c).turnNumber
           IN \A i \in 0..(N - 1) :
                /\ GS(c).books[i + 1].currentHolderId = rooms[c].players[((i + t) % N) + 1].id
                /\ t >= 1 => GS(c).books[i + 1].currentHolderId # GS(c).books[i + 1].id

\* the last turn of a game of three players who are all still there
C30_Witness ==
    \E c \in Codes :
        /\ Live(c)
        /\ GS(c).status = "PLAYING"
        /\ SamePlayersAsAtStart(rooms[c])
        /\ Len(rooms[c].players) = 3
        /\ GS(c).turnNumber = 2
        /\ GS(c).books[1].currentHolderId = rooms[c].players[3].id

\* the holders of the books of a room, in book order
HoldersOf(room) ==
    [i \in 1..Len(room.gameState.books) |-> room.gameState.books[i].currentHolderId]

\* room now differs from room old at most in the submitted list and in the last
\* page of the book player id holds, taken off only if id wrote it
UndoneAtMost(old, now, id) ==
    LET bi == findHeldBook(old, id)
    IN /\ now.players = old.players
       /\ now.gameState.status = old.gameState.status
       /\ now.gameState.turnNumber = old.gameState.turnNumber
       /\ HoldersOf(now) = HoldersOf(old)
       /\ \A i \in 1..Len(old.gameState.books) :
            LET before == old.gameState.books[i].pages
                after == now.gameState.books[i].pages
            IN \/ after = before
               \/ /\ i = bi
                  /\ Len(before) > 0
                  /\ before[Len(before)].playerId = id
                  /\ after = SubSeq(before, 1, Len(before) - 1)

\* C31: un-submit by a player P who is not in the submitted set changes nothing;
\* when P is in the submitted set it removes at most the last page of the book P
\* holds, only if that page's author is P, and it never changes any other book, the
\* turn index or any book's holder.
C31_UnsubmitFrame ==
    \A c \in Codes : \A s \in Sockets :
        Live(c) =>
            LET w == UNSUBMIT(World, s, c)
                pi == findPlayerBySocket(rooms[c], s)
            IN /\ (pi = 0 \/ ~includes(GS(c).submittedPlayerIds, rooms[c].players[pi].id))
                    => w = World
               /\ pi # 0 => UndoneAtMost(rooms[c], getRoom(w, c), rooms[c].players[pi].id)
               /\ w.turnTimers = turnTimers

\* a player who has submitted a page in the current turn and whose un-submit is
\* acted on, beside a player who has not submitted
C31_Witness ==
    \E c \in Codes : \E s, t \in open :
        /\ Live(c)
        /\ GS(c).status = "PLAYING"
        /\ findPlayerBySocket(rooms[c], s) # 0
        /\ includes(GS(c).submittedPlayerIds, userIdOf(s))
        /\ UNSUBMIT(World, s, c) # World
        /\ getRoom(UNSUBMIT(World, s, c), c).gameState.books # GS(c).books
        /\ findPlayerBySocket(rooms[c], t) # 0
        /\ ~includes(GS(c).submittedPlayerIds, userIdOf(t))
        /\ UNSUBMIT(World, t, c) = World

\* w is the server after an accepted submission of connection s with the given page
\* type and content: one page at the end of the book the player held; when the turn
\* was not advanced, the player in the submitted list and nothing else changed in
\* the room
SubmissionFrame(w, s, c, type, content) ==
    LET pi == findPlayerBySocket(rooms[c], s)
        id == rooms[c].players[pi].id
        bi == findHeldBook(rooms[c], id)
        page == [type |-> type, playerId |-> id, content |-> content,
                 disconnected |-> undefined, turn |-> GS(c).turnNumber]
    IN w # World
       => /\ pi # 0 /\ bi # 0
          /\ getRoom(w, c).gameState.books[bi].pages = Append(GS(c).books[bi].pages, page)
          /\ getRoom(w, c).players = rooms[c].players
          /\ w.advLog = <<>>
                => /\ getRoom(w, c) =
                        [rooms[c] EXCEPT
                            !.gameState.books[bi].pages = Append(@, page),
                            !.gameState.submittedPlayerIds = Append(@, id)]
                   /\ ~includes(GS(c).submittedPlayerIds, id)
                   /\ w.turnTimers = turnTimers

\* C32: an accepted submit-drawing or submit-guess by player P appends exactly one
\* page (author P, the submitted content, not marked disconnected) at the end of the
\* book P holds and adds P to the submitted set; if it does not complete the turn,
\* all other books, the turn index, the player list and every book's current holder
\* are unchanged.
C32_SubmitFrame ==
    \A c \in Codes : \A s \in Sockets :
        Live(c) =>
            /\ \A d \in DrawingInputs :
                SubmissionFrame(SUBMIT_DRAWING(World, s, c, d), s, c, "draw", d)
            /\ \A g \in GuessInputs :
                SubmissionFrame(SUBMIT_GUESS(World, s, c, g), s, c, "guess", trim(g))

\* in a turn after the first, a player has submitted a page to the book of another
\* player that they hold, and the turn is still open
C32_Witness ==
    \E c \in Codes : \E s \in open :
        /\ Live(c)
        /\ GS(c).status = "PLAYING"
        /\ GS(c).turnNumber >= 1
        /\ findPlayerBySocket(rooms[c], s) # 0
        /\ GS(c).submittedPlayerIds = <<userIdOf(s)>>
        /\ Len(rooms[c].players) >= 2
        /\ LET bi == findHeldBook(rooms[c], userIdOf(s))
               pages == GS(c).books[bi].pages
           IN /\ bi # 0
              /\ GS(c).books[bi].id # userIdOf(s)
              /\ pages[Len(pages)].playerId = userIdOf(s)
              /\ pages[Len(pages)].turn = GS(c).turnNumber
              /\ pages[Len(pages)].disconnected = undefined

\* room is as START_GAME leaves the room old: a game at turn 0 with nothing
\* submitted and, for each player in list order, one book held by its owner with
\* the owner's seed page as its only page
FreshGame(old, room) ==
    /\ room.players = old.players
    /\ room.gameState.status = "PLAYING"
    /\ room.gameState.turnNumber = 0
    /\ room.gameState.submittedPlayerIds = <<>>
    /\ Len(room.gameState.books) = Len(room.players)
    /\ \A i \in 1..Len(room.players) :
        LET book == room.gameState.books[i]
        IN /\ book.id = room.players[i].id
           /\ book.currentHolderId = room.players[i].id
           /\ Len(book.pages) = 1
           /\ book.pages[1].type = "word"
           /\ book.pages[1].playerId = room.players[i].id

\* C33: an accepted start-game sets status playing, turn index 0 and an empty
\* submitted set, creates exactly one book per player of the room, each held by its
\* owner and containing exactly one seed page authored by the owner, and arms the
\* room's turn timer for turn 0.
C33_StartGame ==
    \A c \in Codes : \A s \in Sockets :
        LET w == START_GAME(World, s, c)
        IN (Live(c) /\ w # World)
           => /\ FreshGame(rooms[c], getRoom(w, c))
              /\ w.turnTimers[c] = [gen |-> rooms[c].gen, turn |-> 0]

\* a game of three players has just been started: the players were told so and
\* the timer of turn 0 is pending
C33_Witness ==
    \E c \in Codes :
        /\ Live(c)
        /\ FreshGame(rooms[c], rooms[c])
        /\ Len(rooms[c].players) = 3
        /\ \E m \in sent : m.ev = "game_started"
        /\ turnTimers[c] = [gen |-> rooms[c].gen, turn |-> 0]

\* C34: an accepted join-room from an identity that is already in the room changes
\* only that player's socketId, name and isConnected (set to true); the player's
\* position in the player list, isReady, isHost and teamId, all other players, and
\* the game state are unchanged.  (Names and teams are not part of the model.)
C34_RejoinFrame ==
    \A c \in Codes : \A s \in open :
        LET w == JOIN_ROOM(World, s, c)
            ei == findPlayerById(rooms[c], userIdOf(s))
        IN (Live(c) /\ ei # 0 /\ w # World)
           => /\ getRoom(w, c) = [rooms[c] EXCEPT !.players[ei].socketId = s,
                                                  !.players[ei].isConnected = TRUE]
              /\ w.turnTimers = turnTimers

\* the host, who is ready, is back in the lobby on a second connection, beside
\* another player
C34_Witness ==
    \E c \in Codes : \E i \in 1..2 :
        /\ Live(c)
        /\ GS(c).status = "LOBBY"
        /\ Len(rooms[c].players) = 2
        /\ rooms[c].players[i].socketId = <<rooms[c].players[i].id, 2>>
        /\ <<rooms[c].players[i].id, 2>> \in open
        /\ <<<<rooms[c].players[i].id, 1>>, c>> \in joined
        /\ <<<<rooms[c].players[i].id, 2>>, c>> \in joined
        /\ rooms[c].players[i].isConnected
        /\ rooms[c].players[i].isHost
        /\ rooms[c].players[i].isReady

\* C35: update-settings changes a room's settings only when it is sent by the
\* room's host; a request from a non-host player, or from a socket that belongs to
\* no player of the room, leaves the settings unchanged.
C35_OnlyHostUpdatesSettings ==
    \A c \in Codes : \A s \in open : \A st \in SettingsInputs :
        (Live(c) /\ ~IsHostSocket(s, c))
        => getRoom(UPDATE_SETTINGS(World, s, c, st), c).settings = rooms[c].settings


\* C36: every non-seed page of a book has the kind of the action type of the turn in
\* which it was appended (draw on draw turns, guess on guess turns), whichever
\* submit event the client sent and whether the page was submitted or auto-filled.
\* (Each step of a game in progress that appends pages to a book appends pages of
\* the kind of the turn the room is in when the step begins.)
C36_PageKindIsTurnAction ==
    [][\A c \in Codes :
        (/\ Live(c)
         /\ rooms'[c] # NoRoom
         /\ rooms'[c].gen = rooms[c].gen
         /\ GS(c).status = "PLAYING"
         /\ rooms'[c].gameState.status # "LOBBY"
         /\ ~Restarted(c)
         /\ Len(rooms'[c].gameState.books) = Len(GS(c).books))
        => \A i \in 1..Len(GS(c).books) :
                LET old == GS(c).books[i].pages
                    new == rooms'[c].gameState.books[i].pages
                IN \A k \in (Len(old) + 1)..Len(new) :
                        new[k].type = getCurrentAction(GS(c).turnNumber,
                                                       Len(rooms[c].players))]_vars


\* C37: in every reachable state the submitted set contains no duplicate ids and
\* contains only ids of players currently in the room's player list, including
\* after a player who had submitted is removed by grace expiry or kick.
C37_SubmittedAreCurrentPlayers ==
    \A c \in Codes :
        Live(c) =>
            LET submitted == GS(c).submittedPlayerIds
            IN /\ \A i, j \in 1..Len(submitted) : submitted[i] = submitted[j] => i = j
               /\ \A i \in 1..Len(submitted) : findPlayerById(rooms[c], submitted[i]) # 0


\* C38: a start-game from the host while the room is already in playing status
\* changes nothing: the books, turn index and submitted set of the game in progress
\* are kept.
C38_StartGameWhilePlayingIgnored ==
    \A c \in Codes : \A s \in open :
        (Live(c) /\ GS(c).status = "PLAYING" /\ IsHostSocket(s, c))
        => LET after == getRoom(START_GAME(World, s, c), c).gameState
           IN /\ after.books = GS(c).books
              /\ after.turnNumber = GS(c).turnNumber
              /\ after.submittedPlayerIds = GS(c).submittedPlayerIds


\* the player of room c with the identity of socket s is bound to another socket
\* than s, which joined the room earlier and is still open
Rebound(s, c) ==
    /\ Live(c)
    /\ s \in open
    /\ <<s, c>> \in joined
    /\ findPlayerById(rooms[c], userIdOf(s)) # 0
    /\ rooms[c].players[findPlayerById(rooms[c], userIdOf(s))].socketId # s

\* the server after the disconnecting and the disconnect event of socket s
disconnected(s) ==
    LET w0 == [World EXCEPT !.open = @ \ {s}]
        w1 == DISCONNECTING(w0, s)
        w2 == [w1 EXCEPT !.joined = {j \in @ : j[1] # s}]
    IN DISCONNECT(w2, s)

\* C39: if a player's persistent identity has been rebound to a new connection
\* before the old connection's disconnect events are processed, those events do not
\* mark the player disconnected and arm no grace timer for them (the rooms and the
\* pending timers and callbacks stay as they are).
C39_OldSocketDisconnectIgnored ==
    \A c \in Codes : \A s \in Sockets :
        Rebound(s, c)
        => /\ disconnected(s).rooms = rooms
           /\ disconnected(s).discQ = discQ
           /\ disconnected(s).graceQ = graceQ
           /\ disconnected(s).disconnectionTimers = disconnectionTimers
           /\ disconnected(s).turnTimers = turnTimers

\* a connected player of a game in progress whose identity was rebound to a second
\* socket while the first is still open
C39_Witness ==
    \E c \in Codes : \E s \in Sockets :
        /\ Rebound(s, c)
        /\ GS(c).status = "PLAYING"
        /\ LET p == rooms[c].players[findPlayerById(rooms[c], userIdOf(s))]
           IN /\ p.isConnected
              /\ p.socketId \in open
              /\ <<p.socketId, c>> \in joined
        /\ disconnected(s).rooms = rooms
        /\ disconnected(s).discQ = discQ


\* C40: create-room adds a new room in lobby status with exactly one player (the
\* creator: host, ready, connected) and leaves every room already in the registry
\* present and unchanged, whatever room code is generated.
C40_CreateRoomKeepsOtherRooms ==
    \A roomId \in Codes : \A s \in open :
        LET w == CREATE_ROOM(World, s, roomId, nextGen + 1)
            room == getRoom(w, roomId)
        IN /\ room # NoRoom
           /\ room.gameState.status = "LOBBY"
           /\ Len(room.players) = 1
           /\ room.players[1].id = userIdOf(s)
           /\ room.players[1].isHost
           /\ room.players[1].isReady
           /\ room.players[1].isConnected
           /\ \A c \in Codes : Live(c) => getRoom(w, c) = rooms[c]

====
